---- MODULE Spec2Model ----
(***************************************************************************)
(* Credential store of Chipi IA (src/database.py): DatabaseManager and     *)
(* BackupManager over the credential file and the backup directory; and    *)
(* the per-user memory (src/memory.py): MemoryManager over the memory file *)
(* of one user.                                                            *)
(*                                                                         *)
(* Strings are sequences of one-character strings.  A nullable value is a  *)
(* sequence of length 0 (null) or 1.  Digests are modelled as tagged       *)
(* tuples of their inputs (collision-free idealisation of SHA-256/PBKDF2). *)
(* The clock counts minutes; a timestamp is the value of the clock, so two *)
(* backups taken at the same clock value have the same file name.          *)
(* One process calls the operations one after the other.  In Spec,         *)
(* SpecEnv, SpecCreate and SpecBackups the file system does what it is     *)
(* asked; SpecFaulty adds a file system that refuses writes, and          *)
(* SpecCrash calls that a crash of the process cuts short.                 *)
(***************************************************************************)
EXTENDS Integers, Sequences, FiniteSets, TLC

VARIABLES
    now,        \* the clock, in minutes
    file,       \* the credential file: None, or Some([db, mtime])
    backups,    \* the backup directory: timestamp in the name -> [db, mtime]
    last,       \* the latest call: operation, arguments, returned value,
                \* whether it raised to its caller
    used,       \* calls made so far that wrote new data
    streak,     \* per phone: consecutive wrong-password validate_user calls,
                \* kept at MAX_LOGIN_ATTEMPTS once reached
    writable,   \* the file system accepts writes (open for writing, copy)
    memory_file,\* the memory file of the user: None, or Some(memory)
    fernet,     \* the key of the MemoryManager instance: None, or Some(key)
    plain,      \* per (category, key): the value last given to store_item
    order,      \* the (category, key) pairs of the items of the memory file,
                \* in the order its mappings keep them (a dict keeps its
                \* keys in the order they were first set)
    calls,      \* per thread: the store_item call it is in the middle of
    inodes,     \* what the memory file and its .tmp sibling hold, half by
                \* half, while threads write them
    memory_key, \* the key file memory_key.key as threads that construct a
                \* MemoryManager find and write it: None, or Some(bytes)
    managers,   \* per thread: how far the construction of its MemoryManager
                \* is, and the key it got
    logins,     \* per thread: the validate_user call it is in the middle of
    checks      \* how many wrong passwords were compared with a stored hash

memvars == <<memory_file, fernet, plain, order, calls, inodes, memory_key, managers>>

loginvars == <<logins, checks>>

vars == <<now, file, backups, last, used, streak, writable, memvars, loginvars>>

(* ---------------------------- bounds ---------------------------------- *)
MaxTime == 30
TickStep == 15
\* how many calls that write the disk a run may make, failed logins aside
MaxWrites == 2

(* ------------------------ program constants --------------------------- *)
PASSWORD_MIN_LENGTH == 6
MAX_LOGIN_ATTEMPTS == 5
LOCK_MINUTES == 30
KEEP_BACKUPS == 5
PHONE_LENGTH == 10
MIN_LETTERS == 3
MIN_DIGITS == 3

None == << >>
Some(v) == <<v>>

(* --------------------------- input sets ------------------------------- *)
PhoneA == <<"3","0","0","1","2","3","4","5","6","7">>
PhoneB == <<"3","1","0","9","8","7","6","5","4","3">>
PhoneShort == <<"3","0","0","1","2","3","4","5","6">>
PhoneLong == <<"3","0","0","1","2","3","4","5","6","7","8">>
PhoneNot3 == <<"4","0","0","1","2","3","4","5","6","7">>
PhoneAlpha == <<"3","0","0","1","2","3","4","5","6","a">>

GoodPhones == {PhoneA, PhoneB}
Phones == GoodPhones \cup {PhoneShort, PhoneLong, PhoneNot3, PhoneAlpha, None}

PwAbc123 == <<"a","b","c","1","2","3">>
PwXyz789 == <<"x","y","z","7","8","9","!">>
PwWrong12 == <<"w","r","o","n","g","1","2">>
PwShort == <<"a","b","1","2","3">>
PwFewLetters == <<"a","b","1","2","3","4">>
PwFewDigits == <<"a","b","c","d","1","2">>

Passwords == {PwAbc123, PwXyz789, PwWrong12, PwShort, PwFewLetters, PwFewDigits}

\* the calls a run of Spec makes
CreateInputs == (GoodPhones \X {PwAbc123}) \cup {<<PhoneNot3, PwAbc123>>, <<PhoneA, PwFewDigits>>}
LoginPhones == {PhoneA}
LoginPasswords == {PwAbc123, PwWrong12}

Salts == {"s1", "s2"}

PrefUpdates == {<<"font_size", "large">>}

(* ------------------------- character classes -------------------------- *)
Digits == {"0","1","2","3","4","5","6","7","8","9"}
Letters == {"a","b","c","d","g","n","o","r","w","x","y","z"}

isdigit(c) == c \in Digits
isalpha(c) == c \in Letters

\* str.isdigit(): non-empty and every character a digit
str_isdigit(s) == Len(s) > 0 /\ \A i \in 1..Len(s) : isdigit(s[i])

startswith(s, c) == Len(s) > 0 /\ s[1] = c

\* sum(pred(c) for c in s)
CountDigits(s) == Cardinality({i \in 1..Len(s) : isdigit(s[i])})
CountLetters(s) == Cardinality({i \in 1..Len(s) : isalpha(s[i])})

_validate_phone_format(phone) ==
    /\ str_isdigit(phone)
    /\ Len(phone) = PHONE_LENGTH
    /\ startswith(phone, "3")

\* a bug: strict comparisons in the letter and digit counts
_validate_password_strength_strict(password) ==
    IF Len(password) < PASSWORD_MIN_LENGTH
    THEN FALSE
    ELSE CountLetters(password) > MIN_LETTERS /\ CountDigits(password) > MIN_DIGITS

_validate_password_strength(password) ==
    IF Len(password) < PASSWORD_MIN_LENGTH
    THEN FALSE
    ELSE CountLetters(password) >= MIN_LETTERS /\ CountDigits(password) >= MIN_DIGITS

(* ------------------------------ digests ------------------------------- *)
sha256(password) == <<"sha256", password>>
pbkdf2_hmac(password, salt) == <<"pbkdf2", password, salt>>

\* _hash_password with a given salt
_hash_password(password, salt) == pbkdf2_hmac(password, salt)

_calculate_integrity_hash(users) == <<"sha256", users>>

(* --------------------------- the database ----------------------------- *)
EmptyUsers == [p \in {} |-> None]

DefaultPreferences ==
    [k \in {"audio_enabled", "font_size", "theme"} |->
        CASE k = "audio_enabled" -> "true"
          [] k = "font_size" -> "medium"
          [] k = "theme" -> "default"]

_create_empty_db_structure(t) ==
    [metadata |-> [version |-> "2.1.0", created_at |-> t, last_modified |-> t,
                   user_count |-> 0,
                   integrity_hash |-> _calculate_integrity_hash(EmptyUsers)],
     users |-> EmptyUsers]

_verify_data_integrity(db) ==
    db.metadata.integrity_hash = _calculate_integrity_hash(db.users)

_repair_database_data(db, t) ==
    [db EXCEPT !.metadata.version = "2.1.0",
               !.metadata.last_modified = t,
               !.metadata.user_count = Cardinality(DOMAIN db.users),
               !.metadata.integrity_hash = _calculate_integrity_hash(db.users)]

\* a file that holds only the beginning of what was being written to it
Torn(stored) == "torn" \in DOMAIN stored
Tear(stored) == [db |-> stored.db, mtime |-> stored.mtime, torn |-> TRUE]

\* _repair_corrupted_db: the pattern finds "users": {} in the text of an empty
\* database; with users in it the match ends at the first closing brace,
\* inside the first record, and does not parse
_repair_corrupted_db(f, t) == _create_empty_db_structure(t)

\* _load_database: f is the live file (None when absent)
_load_database(f, t) ==
    IF f # None
    THEN IF Torn(f[1])
         THEN _repair_corrupted_db(f, t)
         ELSE IF ~ _verify_data_integrity(f[1].db)
         THEN _repair_database_data(f[1].db, t)
         ELSE f[1].db
    ELSE _create_empty_db_structure(t)

\* a bug: the result of the verification is negated
_verify_database_integrity_negated(f, t) == ~ _verify_data_integrity(_load_database(f, t))

_verify_database_integrity(f, t) == _verify_data_integrity(_load_database(f, t))

(* ----------------------------- backups -------------------------------- *)
\* a bug: the sort is not reversed, the oldest files are kept
_clean_old_backups_oldest(b) ==
    LET n == IF Cardinality(DOMAIN b) < KEEP_BACKUPS
             THEN Cardinality(DOMAIN b) ELSE KEEP_BACKUPS
        keeps == {K \in SUBSET DOMAIN b :
                    /\ Cardinality(K) = n
                    /\ \A k \in K : \A j \in DOMAIN b \ K : b[k].mtime <= b[j].mtime}
    IN  {[k \in K |-> b[k]] : K \in keeps}

\* the results _clean_old_backups can leave: the KEEP_BACKUPS most recently
\* modified files, ties broken by the directory order
_clean_old_backups(b) ==
    LET n == IF Cardinality(DOMAIN b) < KEEP_BACKUPS
             THEN Cardinality(DOMAIN b) ELSE KEEP_BACKUPS
        keeps == {K \in SUBSET DOMAIN b :
                    /\ Cardinality(K) = n
                    /\ \A k \in K : \A j \in DOMAIN b \ K : b[k].mtime >= b[j].mtime}
    IN  {[k \in K |-> b[k]] : K \in keeps}

\* create_backup: d is the disk [file, backups]; copy2 keeps the mtime
create_backup(d, t) ==
    IF d.file = None
    THEN {d}
    ELSE LET copied == [k \in DOMAIN d.backups \cup {t} |->
                          IF k = t THEN d.file[1] ELSE d.backups[k]]
         IN  {[file |-> d.file, backups |-> b] : b \in _clean_old_backups(copied)}

get_latest_backup(b) ==
    {k \in DOMAIN b : \A j \in DOMAIN b : b[k].mtime >= b[j].mtime}

\* a bug: user_count not recomputed by the save
_save_database_stale_count(d, db, t) ==
    LET db2 == [db EXCEPT !.metadata.last_modified = t,
                          !.metadata.integrity_hash = _calculate_integrity_hash(db.users)]
    IN  {[file |-> Some([db |-> db2, mtime |-> t]), backups |-> d2.backups] :
            d2 \in create_backup(d, t)}

\* a bug: the backup is taken after the file was replaced
_save_database_backup_after(d, db, t) ==
    LET db2 == [db EXCEPT !.metadata.last_modified = t,
                          !.metadata.user_count = Cardinality(DOMAIN db.users),
                          !.metadata.integrity_hash = _calculate_integrity_hash(db.users)]
    IN  create_backup([file |-> Some([db |-> db2, mtime |-> t]), backups |-> d.backups], t)

\* _save_database: metadata refreshed, backup, write-and-replace
_save_database(d, db, t) ==
    LET db2 == [db EXCEPT !.metadata.last_modified = t,
                          !.metadata.user_count = Cardinality(DOMAIN db.users),
                          !.metadata.integrity_hash = _calculate_integrity_hash(db.users)]
    IN  {[file |-> Some([db |-> db2, mtime |-> t]), backups |-> d2.backups] :
            d2 \in create_backup(d, t)}

\* _save_database with its except branch: the disk left and the value
\* returned; with writes refused the backup copy and the temp file both fail
TrySave(d, db, t) ==
    IF writable
    THEN {[d |-> d2, ok |-> TRUE] : d2 \in _save_database(d, db, t)}
    ELSE {[d |-> d, ok |-> FALSE]}

_create_empty_db(d, t) ==
    [file |-> Some([db |-> _create_empty_db_structure(t), mtime |-> t]),
     backups |-> d.backups]

disk == [file |-> file, backups |-> backups]

\* the record of a call that returned
Returned(op, phone, password, result, handle, value) ==
    [op |-> op, phone |-> phone, password |-> password, result |-> result,
     raised |-> FALSE, handle |-> handle, value |-> value]

NoCall == Returned("none", None, None, FALSE, None, None)

\* the threads that run commands in the background for one user
Threads == {"t1", "t2"}

\* a thread that is not inside store_item
NoStore ==
    [pc |-> "idle", category |-> "", key |-> "", value |-> None,
     memory |-> None, output |-> None, fd |-> "closed"]

NoCalls == [t \in Threads |-> NoStore]

\* the memory file as it was left by the last call that ran alone, and no
\* .tmp sibling
NoInodes == [temp |-> None, live |-> [first |-> "file", second |-> "file"]]

\* no thread is inside validate_user
NoLogins ==
    [t \in Threads |-> [pc |-> "idle", phone |-> None, password |-> None,
                        db |-> None, result |-> FALSE]]

\* no thread has started to construct a MemoryManager
NoManagers ==
    [t \in Threads |-> [pc |-> "new", encryption_key |-> None, wrote |-> FALSE]]

Done(op, phone, password, result) ==
    last' = Returned(op, phone, password, result, None, None)

Write(d) == file' = d.file /\ backups' = d.backups

\* the run may still make a writing call, and makes it
Spend == used < MaxWrites /\ used' = used + 1

(* ------------------------------ actions ------------------------------- *)
Init ==
    /\ now = 0
    /\ file = None
    /\ backups = [k \in {} |-> None]
    /\ last = NoCall
    /\ used = 0
    /\ streak = [p \in GoodPhones |-> 0]
    /\ writable = TRUE
    /\ memory_file = None
    /\ fernet = None
    /\ plain = [i \in {} |-> None]
    /\ order = << >>
    /\ calls = NoCalls
    /\ inodes = NoInodes
    /\ memory_key = None
    /\ managers = NoManagers
    /\ logins = NoLogins
    /\ checks = 0

Tick ==
    /\ now + TickStep <= MaxTime
    /\ now' = now + TickStep
    /\ Done("tick", None, None, TRUE)
    /\ UNCHANGED <<file, backups, used, streak, writable, memvars, loginvars>>

\* a bug: the record stores the unsalted digest next to the salt
NewRecord_unsalted_digest(password, salt, t) ==
    [password_hash |-> sha256(password),
     salt |-> Some(salt),
     created_at |-> t,
     last_login |-> None,
     is_active |-> TRUE,
     login_attempts |-> 0,
     locked_until |-> None,
     preferences |-> DefaultPreferences]

NewRecord(password, salt, t) ==
    [password_hash |-> _hash_password(password, salt),
     salt |-> Some(salt),
     created_at |-> t,
     last_login |-> None,
     is_active |-> TRUE,
     login_attempts |-> 0,
     locked_until |-> None,
     preferences |-> DefaultPreferences]

SetUser(db, phone, rec) ==
    [db EXCEPT !.users = [q \in DOMAIN db.users \cup {phone} |->
                            IF q = phone THEN rec ELSE db.users[q]]]

\* a bug: the phone is looked up without its leading digit
UserExists_trimmed(db, phone) == SubSeq(phone, 2, Len(phone)) \in DOMAIN db.users

UserExists(db, phone) == phone \in DOMAIN db.users

create_user(phone, password) ==
    /\ UNCHANGED <<now, streak, writable, memvars, loginvars>>
    /\ IF ~ _validate_phone_format(phone)
       THEN UNCHANGED <<file, backups, used>> /\ Done("create_user", phone, password, FALSE)
       ELSE IF ~ _validate_password_strength(password)
       THEN UNCHANGED <<file, backups, used>> /\ Done("create_user", phone, password, FALSE)
       ELSE LET db == _load_database(file, now)
            IN  IF UserExists(db, phone)
                THEN UNCHANGED <<file, backups, used>> /\ Done("create_user", phone, password, FALSE)
                ELSE \E salt \in Salts :
                       \E s \in TrySave(disk, SetUser(db, phone, NewRecord(password, salt, now)), now) :
                          Write(s.d) /\ Done("create_user", phone, password, s.ok) /\ Spend

\* a bug: locked_until is not looked at
_is_account_locked_never(user_data, t) == FALSE

\* a bug: the comparison with the lock time is inverted
_is_account_locked_inverted(user_data, t) ==
    IF user_data.locked_until # None
    THEN t > user_data.locked_until[1]
    ELSE FALSE

\* a bug: the lock still holds at locked_until itself
_is_account_locked_inclusive(user_data, t) ==
    IF user_data.locked_until # None
    THEN t <= user_data.locked_until[1]
    ELSE FALSE

_is_account_locked(user_data, t) ==
    IF user_data.locked_until # None
    THEN t < user_data.locked_until[1]
    ELSE FALSE

\* a bug: the migration stores the new digest but not its salt
LegacyMigrate_no_salt(user_data, password, new_salt, t) ==
    [user_data EXCEPT !.password_hash = _hash_password(password, new_salt),
                      !.login_attempts = 0,
                      !.last_login = Some(t)]

\* lines 260-264: the record after a legacy match
LegacyMigrate(user_data, password, new_salt, t) ==
    [user_data EXCEPT !.password_hash = _hash_password(password, new_salt),
                      !.salt = Some(new_salt),
                      !.login_attempts = 0,
                      !.last_login = Some(t)]

\* a bug: a successful login leaves locked_until in place
LoginSuccess_keeps_lock(user_data, t) ==
    [user_data EXCEPT !.login_attempts = 0,
                      !.last_login = Some(t)]

\* lines 273-275: the record after a salted match
LoginSuccess(user_data, t) ==
    [user_data EXCEPT !.login_attempts = 0,
                      !.last_login = Some(t),
                      !.locked_until = None]

\* a bug: the count starts again once a lockout has expired
LoginFailure_restarts(user_data, t) ==
    LET attempts == IF user_data.locked_until # None THEN 1
                    ELSE user_data.login_attempts + 1
    IN  [user_data EXCEPT !.login_attempts = attempts,
                          !.locked_until =
                             IF attempts >= MAX_LOGIN_ATTEMPTS
                             THEN Some(t + LOCK_MINUTES)
                             ELSE user_data.locked_until]

\* lines 280-284: the record after a salted mismatch
LoginFailure(user_data, t) ==
    LET attempts == user_data.login_attempts + 1
    IN  [user_data EXCEPT !.login_attempts = attempts,
                          !.locked_until =
                             IF attempts >= MAX_LOGIN_ATTEMPTS
                             THEN Some(t + LOCK_MINUTES)
                             ELSE user_data.locked_until]

\* the password whose digest the record stores
StoredPassword(user_data) == user_data.password_hash[2]

CountStreak(phone, password, db) ==
    streak' = IF phone \in DOMAIN db.users /\ phone \in DOMAIN streak
              THEN [streak EXCEPT ![phone] =
                      IF @ = MAX_LOGIN_ATTEMPTS THEN @
                      ELSE IF password # StoredPassword(db.users[phone]) THEN @ + 1
                      ELSE 0]
              ELSE streak

validate_user(phone, password) ==
    /\ UNCHANGED <<now, writable, memvars, loginvars>>
    /\ LET db == _load_database(file, now)
       IN  /\ CountStreak(phone, password, db)
           /\ IF ~ UserExists(db, phone)
              THEN UNCHANGED <<file, backups, used>> /\ Done("validate_user", phone, password, FALSE)
              ELSE LET user_data == db.users[phone]
                   IN  IF _is_account_locked(user_data, now)
                       THEN UNCHANGED <<file, backups, used>> /\ Done("validate_user", phone, password, FALSE)
                       ELSE IF user_data.salt = None
                       THEN \* legacy unsalted SHA-256 record
                            IF sha256(password) = user_data.password_hash
                            THEN \E new_salt \in Salts :
                                   \E s \in TrySave(disk,
                                               SetUser(db, phone, LegacyMigrate(user_data, password, new_salt, now)), now) :
                                      Write(s.d) /\ Done("validate_user", phone, password, TRUE) /\ Spend
                            ELSE UNCHANGED <<file, backups, used>> /\ Done("validate_user", phone, password, FALSE)
                       ELSE IF _hash_password(password, user_data.salt[1]) = user_data.password_hash
                       THEN \E s \in TrySave(disk, SetUser(db, phone, LoginSuccess(user_data, now)), now) :
                               Write(s.d) /\ Done("validate_user", phone, password, TRUE) /\ Spend
                       ELSE \E s \in TrySave(disk, SetUser(db, phone, LoginFailure(user_data, now)), now) :
                               Write(s.d) /\ Done("validate_user", phone, password, FALSE) /\ UNCHANGED used

update_user_preference(phone, preference, value) ==
    /\ UNCHANGED <<now, streak, writable, memvars, loginvars>>
    /\ LET db == _load_database(file, now)
       IN  IF ~ UserExists(db, phone)
           THEN UNCHANGED <<file, backups, used>> /\ Done("update_user_preference", phone, None, FALSE)
           ELSE LET prefs == db.users[phone].preferences
                    rec == [db.users[phone] EXCEPT !.preferences =
                              [k \in DOMAIN prefs \cup {preference} |->
                                 IF k = preference THEN value ELSE prefs[k]]]
                IN  \E s \in TrySave(disk, SetUser(db, phone, rec), now) :
                       Write(s.d) /\ Done("update_user_preference", phone, None, s.ok) /\ Spend

delete_user(phone) ==
    /\ UNCHANGED <<now, writable, memvars, loginvars>>
    /\ LET db == _load_database(file, now)
       IN  IF UserExists(db, phone)
           THEN LET db2 == [db EXCEPT !.users = [q \in DOMAIN db.users \ {phone} |-> db.users[q]]]
                IN  \E s \in TrySave(disk, db2, now) :
                       /\ Write(s.d) /\ Done("delete_user", phone, None, s.ok) /\ Spend
                       /\ streak' = IF s.ok THEN [streak EXCEPT ![phone] = 0] ELSE streak
           ELSE UNCHANGED <<file, backups, used, streak>> /\ Done("delete_user", phone, None, FALSE)

\* BackupManager.restore_backup: the possible outcomes [d, ok] on disk d for
\* handle h (None: the latest backup)
RestoreOutcomes(d, h, t) ==
    LET handles == IF h = None THEN get_latest_backup(d.backups) ELSE {h[1]}
    IN  IF handles = {}
        THEN {[d |-> d, ok |-> FALSE]}
        ELSE UNION {
               IF backup_file \notin DOMAIN d.backups
               THEN {[d |-> d, ok |-> FALSE]}
               ELSE {IF backup_file \in DOMAIN d2.backups
                     THEN [d |-> [file |-> Some(d2.backups[backup_file]),
                                  backups |-> d2.backups],
                           ok |-> TRUE]
                     ELSE [d |-> d2, ok |-> FALSE]
                       : d2 \in create_backup(d, t)}
               : backup_file \in handles}

restore_backup(h) ==
    /\ UNCHANGED <<now, streak, writable, memvars, loginvars>>
    /\ \E r \in (IF writable THEN RestoreOutcomes(disk, h, now)
                 ELSE {[d |-> disk, ok |-> FALSE]}) :
          Write(r.d) /\ last' = Returned("restore_backup", None, None, r.ok, h, None)
          /\ IF r.d = disk THEN UNCHANGED used ELSE Spend

\* _repair_database: the disks it can leave
_repair_database(d, t) ==
    LET latest == get_latest_backup(d.backups)
    IN  IF latest # {}
        THEN UNION {{r.d : r \in RestoreOutcomes(d, Some(backup), t)} : backup \in latest}
        ELSE {_create_empty_db(d, t)}

\* _create_empty_db logs and raises again when it cannot write (lines 65-67),
\* and initialize has no handler
Raised(op) ==
    last' = [op |-> op, phone |-> None, password |-> None, result |-> FALSE,
             raised |-> TRUE, handle |-> None, value |-> None]

initialize ==
    /\ UNCHANGED <<now, streak, writable, memvars, loginvars>>
    /\ IF file = None
       THEN IF writable
            THEN Write(_create_empty_db(disk, now)) /\ Done("initialize", None, None, TRUE) /\ UNCHANGED used
            ELSE UNCHANGED <<file, backups, used>> /\ Raised("initialize")
       ELSE IF ~ _verify_database_integrity(file, now)
       THEN IF writable
            THEN \E d1 \in _repair_database(disk, now) :
                    \E d2 \in create_backup(d1, now) :
                       Write(d2) /\ Done("initialize", None, None, TRUE) /\ Spend
            ELSE \* restore_backup returns false; with no backup
                 \* _create_empty_db raises twice, the second time uncaught
                 /\ UNCHANGED <<file, backups, used>>
                 /\ IF get_latest_backup(backups) # {}
                    THEN Done("initialize", None, None, TRUE)
                    ELSE Raised("initialize")
       ELSE \E d2 \in (IF writable THEN create_backup(disk, now) ELSE {disk}) :
               Write(d2) /\ Done("initialize", None, None, TRUE) /\ Spend

Next ==
    \/ Tick
    \/ initialize
    \/ \E i \in CreateInputs : create_user(i[1], i[2])
    \/ \E phone \in LoginPhones, password \in LoginPasswords : validate_user(phone, password)
    \/ \E phone \in LoginPhones, u \in PrefUpdates : update_user_preference(phone, u[1], u[2])
    \/ \E phone \in GoodPhones : delete_user(phone)
    \/ \E h \in {None} \cup {Some(k) : k \in DOMAIN backups} : restore_backup(h)

Spec == Init /\ [][Next]_vars

(* ------------------------- the read operations ------------------------ *)
\* the record without password_hash and salt
SafeData(user_data) ==
    [k \in DOMAIN user_data \ {"password_hash", "salt"} |-> user_data[k]]

get_user_data(phone) ==
    /\ UNCHANGED <<now, file, backups, used, streak, writable, memvars, loginvars>>
    /\ LET db == _load_database(file, now)
       IN  last' = Returned("get_user_data", phone, None, UserExists(db, phone), None,
                            IF UserExists(db, phone)
                            THEN Some(SafeData(db.users[phone]))
                            ELSE None)

\* the entries of the returned list (their order is that of the mapping)
get_all_users ==
    /\ UNCHANGED <<now, file, backups, used, streak, writable, memvars, loginvars>>
    /\ LET db == _load_database(file, now)
       IN  last' = Returned("get_all_users", None, None, TRUE, None,
                            Some({[phone |-> q,
                                   created_at |-> db.users[q].created_at,
                                   last_login |-> db.users[q].last_login,
                                   is_active |-> db.users[q].is_active]
                                    : q \in DOMAIN db.users}))

(* ======================= the memory of a user ========================= *)
MAX_CONVERSATION_CHARS == 50000
MAX_CONVERSATIONS == 100

Owner == PhoneA
KEY == "k1"

\* a Fernet token: the key it was made with and the text inside; the random
\* part of a token is left out, so one text has one token under one key
Token(key, data) == <<"fernet", key, data>>
IsToken(key, data) == Len(data) = 3 /\ data[1] = "fernet" /\ data[2] = key

\* a bug: the token is made with another key than the one decrypt uses
_encrypt_data_other_key(f, data) ==
    IF f = None \/ data = << >>
    THEN data
    ELSE Token("k2", data)

\* f is the fernet of the instance: None, or Some(key)
_encrypt_data(f, data) ==
    IF f = None \/ data = << >>
    THEN data
    ELSE Token(f[1], data)

\* fernet.decrypt raises InvalidToken on anything that is not a token of the
\* key, and the text is then returned as it is
_decrypt_data(f, encrypted_data) ==
    IF f = None \/ encrypted_data = << >>
    THEN encrypted_data
    ELSE IF IsToken(f[1], encrypted_data)
    THEN encrypted_data[3]
    ELSE encrypted_data

DefaultCategoryNames ==
    {"personal_info", "passwords", "reminders", "contacts", "medical_info",
     "preferences", "favorites"}
EncryptedByDefault == {"personal_info", "passwords", "contacts", "medical_info"}

CategoryDescription(c) ==
    CASE c = "personal_info" -> "Informacion personal del usuario"
      [] c = "passwords" -> "Contrasenas seguras"
      [] c = "reminders" -> "Recordatorios importantes"
      [] c = "contacts" -> "Contactos de emergencia y familiares"
      [] c = "medical_info" -> "Informacion medica importante"
      [] c = "preferences" -> "Preferencias de la aplicacion"
      [] c = "favorites" -> "Aplicaciones y servicios favoritos"

NoItems == [k \in {} |-> None]

MemoryMetadata(f, t) ==
    [version |-> "2.1.0", created_at |-> t, last_updated |-> t, owner |-> Owner,
     encryption_enabled |-> (f # None)]

\* the default_memory of _ensure_memory_structure
default_memory(f, t) ==
    [metadata |-> MemoryMetadata(f, t),
     categories |-> [c \in DefaultCategoryNames |->
                       [description |-> CategoryDescription(c),
                        items |-> NoItems,
                        encrypted |-> (c \in EncryptedByDefault)]],
     conversation_history |-> << >>]

_create_empty_memory(f, t) ==
    [metadata |-> MemoryMetadata(f, t),
     categories |-> [c \in DefaultCategoryNames |->
                       [items |-> NoItems, encrypted |-> (c \in EncryptedByDefault)]],
     conversation_history |-> << >>]

\* a bug: the encrypted flag of the category is not looked at
_encrypt_memory_data_every_category(memory, f) ==
    IF f = None
    THEN memory
    ELSE LET cats == memory.categories
         IN  [memory EXCEPT !.categories =
                [c \in DOMAIN cats |->
                   [cats[c] EXCEPT !.items =
                      [k \in DOMAIN cats[c].items |->
                         [cats[c].items[k] EXCEPT !.value =
                            _encrypt_data(f, cats[c].items[k].value)]]]]]

_encrypt_memory_data(memory, f) ==
    IF f = None
    THEN memory
    ELSE LET cats == memory.categories
         IN  [memory EXCEPT !.categories =
                [c \in DOMAIN cats |->
                   IF cats[c].encrypted
                   THEN [cats[c] EXCEPT !.items =
                           [k \in DOMAIN cats[c].items |->
                              [cats[c].items[k] EXCEPT !.value =
                                 _encrypt_data(f, cats[c].items[k].value)]]]
                   ELSE cats[c]]]

\* a bug: the values are handed back as they are in the file
_decrypt_memory_data_skipped(memory, f) == memory

_decrypt_memory_data(memory, f) ==
    IF f = None
    THEN memory
    ELSE LET cats == memory.categories
         IN  [memory EXCEPT !.categories =
                [c \in DOMAIN cats |->
                   IF cats[c].encrypted
                   THEN [cats[c] EXCEPT !.items =
                           [k \in DOMAIN cats[c].items |->
                              [cats[c].items[k] EXCEPT !.value =
                                 _decrypt_data(f, cats[c].items[k].value)]]]
                   ELSE cats[c]]]

\* _save_memory: the file it leaves
_save_memory(memory, f, t) ==
    Some(_encrypt_memory_data([memory EXCEPT !.metadata.last_updated = t,
                                             !.metadata.encryption_enabled = (f # None)],
                              f))

\* JSON values of another type than the one the code looks for: where a
\* mapping is looked for, a value that is none; where a list is, likewise
NotADict == [json_type |-> "str"]
NotAList == <<[json_type |-> "str"]>>
isinstance_dict(v) == "json_type" \notin DOMAIN v
isinstance_list(v) == ~ (Len(v) = 1 /\ "json_type" \in DOMAIN v[1])

\* a file json.load cannot parse
Unparseable == [json_error |-> "JSONDecodeError"]

\* a bug: the type of categories is not looked at
_validate_memory_structure_keys_only(memory) ==
    {"metadata", "categories", "conversation_history"} \subseteq DOMAIN memory

_validate_memory_structure(memory) ==
    /\ {"metadata", "categories", "conversation_history"} \subseteq DOMAIN memory
    /\ isinstance_dict(memory.categories)

\* a bug: the items of the file are not taken over
_repair_memory_structure_forgets_items(memory, f, t) ==
    [_create_empty_memory(f, t) EXCEPT !.conversation_history =
       IF "conversation_history" \in DOMAIN memory
          /\ isinstance_list(memory.conversation_history)
       THEN memory.conversation_history
       ELSE << >>]

_repair_memory_structure(memory, f, t) ==
    LET default == _create_empty_memory(f, t)
        kept == IF "categories" \in DOMAIN memory /\ isinstance_dict(memory.categories)
                THEN {c \in DOMAIN memory.categories \cap DefaultCategoryNames :
                        /\ isinstance_dict(memory.categories[c])
                        /\ "items" \in DOMAIN memory.categories[c]}
                ELSE {}
    IN  [metadata |-> default.metadata,
         categories |-> [c \in DefaultCategoryNames |->
                           IF c \in kept
                           THEN [default.categories[c] EXCEPT
                                   !.items = memory.categories[c].items]
                           ELSE default.categories[c]],
         conversation_history |->
            IF "conversation_history" \in DOMAIN memory
               /\ isinstance_list(memory.conversation_history)
            THEN memory.conversation_history
            ELSE << >>]

\* _ensure_memory_structure: the file after it
_ensure_memory_structure(mf, f, t) ==
    IF mf = None THEN _save_memory(default_memory(f, t), f, t) ELSE mf

\* load_memory: the memory returned; an absent file is made first
\* json.load raises on a file it cannot parse, and the except branch returns
\* _create_empty_memory()
load_memory(mf, f, t) ==
    LET memory == _ensure_memory_structure(mf, f, t)[1]
    IN  IF memory = Unparseable
        THEN _create_empty_memory(f, t)
        ELSE _decrypt_memory_data(IF _validate_memory_structure(memory)
                                  THEN memory
                                  ELSE _repair_memory_structure(memory, f, t),
                                  f)

\* the record of a call on the memory: its category, key and value (the
\* value given to store_item, the value returned by the reads)
MemCall(op, result, category, key, value) ==
    last' = Returned(op, None, None, result, None,
                     Some([category |-> category, key |-> key, value |-> value]))

CredentialsUnchanged ==
    UNCHANGED <<now, file, backups, streak, writable, calls, inodes,
                memory_key, managers, logins, checks>>

\* the order of the keys of the file's items after a write: a key that was
\* set before keeps its place (the first place it has in pairs), a key that
\* is not in the file any more has none
KeyOrder(pairs, memory) ==
    LET first(n) == /\ pairs[n][1] \in DOMAIN memory.categories
                    /\ pairs[n][2] \in DOMAIN memory.categories[pairs[n][1]].items
                    /\ \A m \in 1..(n - 1) : pairs[m] # pairs[n]
        RECURSIVE from(_)
        from(n) == IF n > Len(pairs) THEN << >>
                   ELSE IF first(n) THEN <<pairs[n]>> \o from(n + 1)
                   ELSE from(n + 1)
    IN  from(1)

\* MemoryManager(phone): the key is read or generated, or missing when that
\* fails, and the memory file is made when it is absent
MemoryManager(key) ==
    /\ fernet' = key
    /\ memory_file' = _ensure_memory_structure(memory_file, key, now)
    /\ MemCall("MemoryManager", TRUE, None, None, None)
    /\ CredentialsUnchanged /\ UNCHANGED <<used, plain, order>>

\* f"Categoria {category}"
CategoryFallback(category) ==
    CASE category = "notes" -> "Categoria notes"
      [] OTHER -> "Categoria"

\* a bug: a new category is not flagged encrypted
NewCategory_clear(category, description) ==
    [items |-> NoItems,
     encrypted |-> FALSE,
     description |-> IF description # "" THEN description ELSE CategoryFallback(category)]

NewCategory(category, description) ==
    [items |-> NoItems,
     encrypted |-> TRUE,
     description |-> IF description # "" THEN description ELSE CategoryFallback(category)]

SetCategory(memory, category, data) ==
    [memory EXCEPT !.categories =
       [c \in DOMAIN memory.categories \cup {category} |->
          IF c = category THEN data ELSE memory.categories[c]]]

SetItem(items, key, item) ==
    [k \in DOMAIN items \cup {key} |-> IF k = key THEN item ELSE items[k]]

\* a bug: an update keeps the created_at of the item it replaces
store_item_keeps_created_at(category, key, value, description) ==
    /\ LET memory == load_memory(memory_file, fernet, now)
           data == IF category \in DOMAIN memory.categories
                   THEN memory.categories[category]
                   ELSE NewCategory(category, description)
           item == [value |-> value,
                    created_at |-> IF key \in DOMAIN data.items
                                   THEN data.items[key].created_at ELSE now,
                    last_updated |-> now,
                    description |-> description]
           stored == [data EXCEPT !.items = SetItem(data.items, key, item)]
       IN  memory_file' = _save_memory(SetCategory(memory, category, stored), fernet, now)
    /\ plain' = [i \in DOMAIN plain \cup {<<category, key>>} |->
                   IF i = <<category, key>> THEN value ELSE plain[i]]
    /\ order' = KeyOrder(Append(order, <<category, key>>), memory_file'[1])
    /\ MemCall("store_item", TRUE, category, key, Some(value))
    /\ Spend
    /\ CredentialsUnchanged /\ UNCHANGED fernet

store_item(category, key, value, description) ==
    /\ LET memory == load_memory(memory_file, fernet, now)
           data == IF category \in DOMAIN memory.categories
                   THEN memory.categories[category]
                   ELSE NewCategory(category, description)
           item == [value |-> value, created_at |-> now, last_updated |-> now,
                    description |-> description]
           stored == [data EXCEPT !.items = SetItem(data.items, key, item)]
       IN  memory_file' = _save_memory(SetCategory(memory, category, stored), fernet, now)
    /\ plain' = [i \in DOMAIN plain \cup {<<category, key>>} |->
                   IF i = <<category, key>> THEN value ELSE plain[i]]
    /\ order' = KeyOrder(Append(order, <<category, key>>), memory_file'[1])
    /\ MemCall("store_item", TRUE, category, key, Some(value))
    /\ Spend
    /\ CredentialsUnchanged /\ UNCHANGED fernet

\* the value get_item returns from the file mf: None, or Some(value)
get_item_value(mf, f, t, category, key) ==
    LET memory == load_memory(mf, f, t)
    IN  IF category \in DOMAIN memory.categories
           /\ key \in DOMAIN memory.categories[category].items
        THEN Some(memory.categories[category].items[key].value)
        ELSE None

get_item(category, key) ==
    /\ memory_file' = _ensure_memory_structure(memory_file, fernet, now)
    /\ MemCall("get_item", TRUE, category, key,
               get_item_value(memory_file, fernet, now, category, key))
    /\ CredentialsUnchanged /\ UNCHANGED <<used, fernet, plain, order>>

\* the mapping get_category_items returns from the file mf
get_category_items_value(mf, f, t, category) ==
    LET memory == load_memory(mf, f, t)
    IN  IF category \in DOMAIN memory.categories
        THEN [k \in DOMAIN memory.categories[category].items |->
                memory.categories[category].items[k].value]
        ELSE NoItems

get_category_items(category) ==
    /\ memory_file' = _ensure_memory_structure(memory_file, fernet, now)
    /\ MemCall("get_category_items", TRUE, category, None,
               Some(get_category_items_value(memory_file, fernet, now, category)))
    /\ CredentialsUnchanged /\ UNCHANGED <<used, fernet, plain, order>>

remove_item(category, key) ==
    /\ LET memory == load_memory(memory_file, fernet, now)
       IN  IF category \in DOMAIN memory.categories
              /\ key \in DOMAIN memory.categories[category].items
           THEN /\ memory_file' =
                      _save_memory([memory EXCEPT !.categories[category].items =
                                      [k \in DOMAIN @ \ {key} |-> @[k]]],
                                   fernet, now)
                /\ plain' = [i \in DOMAIN plain \ {<<category, key>>} |-> plain[i]]
                /\ order' = KeyOrder(order, memory_file'[1])
                /\ MemCall("remove_item", TRUE, category, key, None)
                /\ Spend
           ELSE /\ memory_file' = _ensure_memory_structure(memory_file, fernet, now)
                /\ MemCall("remove_item", FALSE, category, key, None)
                /\ UNCHANGED <<used, plain, order>>
    /\ CredentialsUnchanged /\ UNCHANGED fernet

\* the clock counts minutes: timedelta(days=1)
MINUTES_PER_DAY == 1440

\* a bug: an item made exactly at the cutoff is removed too
items_to_remove_inclusive(memory, cutoff_date) ==
    {i \in UNION {{<<c, k>> : k \in DOMAIN memory.categories[c].items}
                    : c \in DOMAIN memory.categories} :
       memory.categories[i[1]].items[i[2]].created_at <= cutoff_date}

\* the (category, key) pairs cleanup_old_items removes from memory
items_to_remove(memory, cutoff_date) ==
    {i \in UNION {{<<c, k>> : k \in DOMAIN memory.categories[c].items}
                    : c \in DOMAIN memory.categories} :
       memory.categories[i[1]].items[i[2]].created_at < cutoff_date}

cleanup_old_items(max_age_days) ==
    /\ \E memory \in {load_memory(memory_file, fernet, now)} :
       \E removed \in {items_to_remove(memory, now - max_age_days * MINUTES_PER_DAY)} :
          /\ IF removed # {}
             THEN /\ memory_file' =
                        _save_memory([memory EXCEPT !.categories =
                                        [c \in DOMAIN @ |->
                                           [@[c] EXCEPT !.items =
                                              [k \in {j \in DOMAIN @ : <<c, j>> \notin removed}
                                                 |-> @[k]]]]],
                                     fernet, now)
                  /\ plain' = [i \in DOMAIN plain \ removed |-> plain[i]]
                  /\ order' = KeyOrder(order, memory_file'[1])
             ELSE /\ memory_file' = _ensure_memory_structure(memory_file, fernet, now)
                  /\ UNCHANGED <<plain, order>>
          /\ last' = Returned("cleanup_old_items", None, None, TRUE, None,
                              Some([max_age_days |-> max_age_days,
                                    value |-> Cardinality(removed)]))
    /\ CredentialsUnchanged /\ UNCHANGED <<used, fernet>>

(* ----------------------- conversation history ------------------------ *)
\* a message: the character ch written n times
Message(ch, n) == [ch |-> ch, n |-> n]
len(message) == message.n

\* sum of entry["length"] over the entries from the i-th on
RECURSIVE TotalSize(_, _)
TotalSize(history, i) ==
    IF i > Len(history) THEN 0 ELSE history[i].length + TotalSize(history, i + 1)

\* a bug: one entry is removed, not as many as it takes
EvictBySize_one_entry(history, i, total_size) ==
    IF total_size > MAX_CONVERSATION_CHARS /\ i <= Len(history)
    THEN SubSeq(history, i + 1, Len(history))
    ELSE SubSeq(history, i, Len(history))

\* lines 374-376: with the first i - 1 entries popped and total_size left,
\* the oldest entry is popped while the total is over the limit and there
\* is an entry
RECURSIVE EvictBySize(_, _, _)
EvictBySize(history, i, total_size) ==
    IF total_size > MAX_CONVERSATION_CHARS /\ i <= Len(history)
    THEN EvictBySize(history, i + 1, total_size - history[i].length)
    ELSE SubSeq(history, i, Len(history))

\* a bug: the first 100 entries are kept, not the last
LimitCount_first(history) ==
    IF Len(history) > MAX_CONVERSATIONS
    THEN SubSeq(history, 1, MAX_CONVERSATIONS)
    ELSE history

\* lines 379-380
LimitCount(history) ==
    IF Len(history) > MAX_CONVERSATIONS
    THEN SubSeq(history, Len(history) - MAX_CONVERSATIONS + 1, Len(history))
    ELSE history

NewEntry(user_message, bot_response, t) ==
    [timestamp |-> t, user |-> user_message, bot |-> bot_response,
     length |-> len(user_message) + len(bot_response)]

\* the history add_conversation_entry saves
Appended(history, user_message, bot_response, t) ==
    CHOOSE saved \in {LimitCount(EvictBySize(appended, 1, TotalSize(appended, 1))) :
                        appended \in {Append(history, NewEntry(user_message, bot_response, t))}} :
       TRUE

add_conversation_entry(user_message, bot_response) ==
    /\ \E memory \in {load_memory(memory_file, fernet, now)} :
          \E history \in {Appended(memory.conversation_history,
                                   user_message, bot_response, now)} :
             memory_file' = _save_memory([memory EXCEPT !.conversation_history = history],
                                         fernet, now)
    /\ last' = Returned("add_conversation_entry", None, None, TRUE, None,
                        Some([user |-> user_message, bot |-> bot_response]))
    /\ order' = KeyOrder(order, memory_file'[1])
    /\ Spend
    /\ CredentialsUnchanged /\ UNCHANGED <<fernet, plain>>

(* --------------------- the memory of one user ------------------------- *)
Categories == {"passwords", "reminders", "notes"}
Keys == {"Netflix"}
Values == {<<"X", "y", "9">>, << >>}
Descriptions == {"", "clave"}
Fernets == {None, Some(KEY)}
ShortMessages == {Message("h", 2)}

InitMemory ==
    /\ now = 0
    /\ file = None
    /\ backups = [k \in {} |-> None]
    /\ last = NoCall
    /\ used = 0
    /\ streak = [p \in GoodPhones |-> 0]
    /\ writable = TRUE
    /\ fernet \in Fernets
    /\ memory_file = _ensure_memory_structure(None, fernet, now)
    /\ plain = [i \in {} |-> None]
    /\ order = << >>
    /\ calls = NoCalls
    /\ inodes = NoInodes
    /\ memory_key = None
    /\ managers = NoManagers
    /\ logins = NoLogins
    /\ checks = 0

NextMemory ==
    \/ \E key \in Fernets : MemoryManager(key)
    \/ \E c \in Categories, k \in Keys, v \in Values, d \in Descriptions : store_item(c, k, v, d)
    \/ \E c \in Categories, k \in Keys : get_item(c, k)
    \/ \E c \in Categories : get_category_items(c)
    \/ \E c \in Categories, k \in Keys : remove_item(c, k)
    \/ \E u \in ShortMessages, b \in ShortMessages : add_conversation_entry(u, b)
    \/ \E d \in {0 - 1, 365} : cleanup_old_items(d)

SpecMemory == InitMemory /\ [][NextMemory]_vars

(* ------------------ a conversation history near its limits ------------ *)
LongMessages ==
    {Message("a", 0), Message("h", 1), Message("x", 25000), Message("y", 50001)}

\* the history after n calls of add_conversation_entry(u, b) on an empty
\* one, for n entries that fit in both limits
PastHistory(n, u, b) == [i \in 1..n |-> NewEntry(u, b, 0 - TickStep)]

PastHistories ==
    {<< >>,
     PastHistory(MAX_CONVERSATIONS - 1, Message("h", 1), Message("a", 0)),
     PastHistory(MAX_CONVERSATIONS, Message("h", 1), Message("h", 1)),
     PastHistory(2, Message("x", 25000), Message("a", 0))}

InitHistory ==
    /\ now = 0
    /\ file = None
    /\ backups = [k \in {} |-> None]
    /\ last = NoCall
    /\ used = 0
    /\ streak = [p \in GoodPhones |-> 0]
    /\ writable = TRUE
    /\ fernet \in Fernets
    /\ \E h \in PastHistories :
          memory_file = _save_memory([default_memory(fernet, 0 - TickStep) EXCEPT
                                         !.conversation_history = h],
                                     fernet, 0 - TickStep)
    /\ plain = [i \in {} |-> None]
    /\ order = << >>
    /\ calls = NoCalls
    /\ inodes = NoInodes
    /\ memory_key = None
    /\ managers = NoManagers
    /\ logins = NoLogins
    /\ checks = 0

NextHistory ==
    \/ \E u \in LongMessages, b \in LongMessages : add_conversation_entry(u, b)
    \/ \E key \in Fernets : MemoryManager(key)

SpecHistory == InitHistory /\ [][NextHistory]_vars

(* ------------------------ items of several ages ----------------------- *)
\* store_item calls: category, key, value, description
SearchItems ==
    {<<"passwords", "Netflix", <<"X", "y", "9">>, "">>,
     <<"passwords", "wifi", <<"N", "E", "T">>, "clave">>,
     <<"reminders", "wifi", <<"X", "y", "9">>, "clave">>,
     <<"conversation_history", "wifi", <<"N", "E", "T">>, "">>}

NextCleanup ==
    \/ Tick
    \/ \E i \in SearchItems : store_item(i[1], i[2], i[3], i[4])
    \/ \E d \in {0 - 1, 0, 1} : cleanup_old_items(d)

SpecCleanup == InitMemory /\ [][NextCleanup]_vars

(* ------------------------------ statistics ---------------------------- *)
\* load_memory() called by the user of the class
LoadMemory ==
    /\ memory_file' = _ensure_memory_structure(memory_file, fernet, now)
    /\ MemCall("load_memory", TRUE, None, None,
               Some(load_memory(memory_file, fernet, now)))
    /\ CredentialsUnchanged /\ UNCHANGED <<used, fernet, plain, order>>

\* the mapping get_memory_stats returns from the loaded memory
get_memory_stats_value(memory) ==
    [total_categories |-> Cardinality(DOMAIN memory.categories),
     total_items |->
        Cardinality(UNION {{<<c, k>> : k \in DOMAIN memory.categories[c].items}
                             : c \in DOMAIN memory.categories}),
     categories |-> [c \in DOMAIN memory.categories |->
                       [item_count |-> Cardinality(DOMAIN memory.categories[c].items),
                        encrypted |-> memory.categories[c].encrypted]],
     conversation_count |-> Len(memory.conversation_history),
     last_updated |-> memory.metadata.last_updated,
     encryption_enabled |-> memory.metadata.encryption_enabled]

get_memory_stats ==
    /\ memory_file' = _ensure_memory_structure(memory_file, fernet, now)
    /\ \E memory \in {load_memory(memory_file, fernet, now)} :
          MemCall("get_memory_stats", TRUE, None, None,
                  Some(get_memory_stats_value(memory)))
    /\ CredentialsUnchanged /\ UNCHANGED <<used, fernet, plain, order>>

\* instances with and without a key, one after the other, on one file
NextStats ==
    \/ \E key \in Fernets : MemoryManager(key)
    \/ \E i \in SearchItems : store_item(i[1], i[2], i[3], i[4])
    \/ get_memory_stats
    \/ LoadMemory

SpecStats == InitMemory /\ [][NextStats]_vars

(* ----------------------------- the key file --------------------------- *)
\* what the constructor finds in memory_key.key: a file it cannot open or a
\* missing one it cannot write ("unavailable"), an empty file, bytes that
\* are no Fernet key, or a key (read, or generated when the file is missing)
KeyFiles == {"unavailable", "empty", "unusable", "usable"}

\* None, or Some(the bytes read or generated)
_get_encryption_key(key_file) ==
    CASE key_file = "unavailable" -> None
      [] key_file = "empty" -> Some("")
      [] key_file = "unusable" -> Some("abc")
      [] key_file = "usable" -> Some(KEY)

\* __init__: Fernet(key) raises ValueError on bytes that are no key, and the
\* constructor has no handler; no bytes and empty bytes give no fernet
MemoryManager_init(key_file) ==
    \E encryption_key \in {_get_encryption_key(key_file)} :
       IF encryption_key = None \/ encryption_key = Some("")
       THEN MemoryManager(None)
       ELSE IF encryption_key = Some(KEY)
       THEN MemoryManager(encryption_key)
       ELSE /\ Raised("MemoryManager")
            /\ UNCHANGED <<now, file, backups, used, streak, writable, memvars, loginvars>>

\* a fresh environment; the operations are those of a constructed instance
NextKey ==
    \/ \E key_file \in KeyFiles : MemoryManager_init(key_file)
    \/ memory_file # None
       /\ \E i \in SearchItems : store_item(i[1], i[2], i[3], i[4])
    \/ memory_file # None
       /\ \E i \in SearchItems : get_item(i[1], i[2])
    \/ memory_file # None /\ get_memory_stats

SpecKey == Init /\ [][NextKey]_vars

(* ----------------------- recent conversations ------------------------ *)
\* "hace n dias / horas / minutos", or "hace unos momentos" (n = 0); the
\* clock counts minutes
_get_time_ago(timestamp, t) ==
    LET days == (t - timestamp) \div MINUTES_PER_DAY
        minutes == (t - timestamp) % MINUTES_PER_DAY
    IN  IF days > 0 THEN [n |-> days, unit |-> "dias"]
        ELSE IF minutes >= 60 THEN [n |-> minutes \div 60, unit |-> "horas"]
        ELSE IF minutes >= 1 THEN [n |-> minutes, unit |-> "minutos"]
        ELSE [n |-> 0, unit |-> "momentos"]

\* a bug: the history is not reversed, the oldest entries are returned
get_recent_conversations_value_oldest(history, limit, t) ==
    LET n == Len(history)
        size == IF limit >= 0
                THEN (IF limit < n THEN limit ELSE n)
                ELSE (IF n + limit > 0 THEN n + limit ELSE 0)
    IN  [i \in 1..size |->
           [k \in DOMAIN history[i] \cup {"time_ago"} |->
              IF k = "time_ago"
              THEN _get_time_ago(history[i].timestamp, t)
              ELSE history[i][k]]]

\* list(reversed(history))[:limit], each entry with its time_ago
get_recent_conversations_value(history, limit, t) ==
    LET n == Len(history)
        size == IF limit >= 0
                THEN (IF limit < n THEN limit ELSE n)
                ELSE (IF n + limit > 0 THEN n + limit ELSE 0)
    IN  [i \in 1..size |->
           [k \in DOMAIN history[n - i + 1] \cup {"time_ago"} |->
              IF k = "time_ago"
              THEN _get_time_ago(history[n - i + 1].timestamp, t)
              ELSE history[n - i + 1][k]]]

\* a bug: the entries are saved with their time_ago
get_recent_conversations_saves(limit) ==
    /\ \E memory \in {load_memory(memory_file, fernet, now)} :
       \E recent \in {get_recent_conversations_value(memory.conversation_history, limit, now)} :
          /\ memory_file' = _save_memory([memory EXCEPT !.conversation_history = recent],
                                         fernet, now)
          /\ last' = Returned("get_recent_conversations", None, None, TRUE, None,
                              Some([limit |-> limit, value |-> recent]))
    /\ CredentialsUnchanged /\ UNCHANGED <<used, fernet, plain, order>>

get_recent_conversations(limit) ==
    /\ memory_file' = _ensure_memory_structure(memory_file, fernet, now)
    /\ \E memory \in {load_memory(memory_file, fernet, now)} :
          last' = Returned("get_recent_conversations", None, None, TRUE, None,
                           Some([limit |-> limit,
                                 value |-> get_recent_conversations_value(
                                              memory.conversation_history, limit, now)]))
    /\ CredentialsUnchanged /\ UNCHANGED <<used, fernet, plain, order>>

Limits == {0 - 1, 0, 1, 2, 10}

NextRecent ==
    \/ Tick
    \/ \E u \in {Message("h", 1), Message("a", 2)}, b \in ShortMessages :
          add_conversation_entry(u, b)
    \/ \E limit \in Limits : get_recent_conversations(limit)

SpecRecent == InitMemory /\ [][NextRecent]_vars

(* ------------------------------ search -------------------------------- *)
\* the characters of the keys and descriptions the model uses
chars(name) ==
    CASE name = "Netflix" -> <<"N", "e", "t", "f", "l", "i", "x">>
      [] name = "wifi" -> <<"w", "i", "f", "i">>
      [] name = "clave" -> <<"c", "l", "a", "v", "e">>
      [] name = "" -> << >>

\* the characters of a value as a load hands it on: a token that was not
\* decrypted is base64 text, taken as one fixed text
value_chars(value) ==
    IF Len(value) = 3 /\ value[1] = "fernet" THEN <<"g", "A", "A", "A">> ELSE value

\* the characters of a message
message_chars(message) == [i \in 1..message.n |-> message.ch]

\* str.lower(), on the characters the model uses
lower(text) ==
    [i \in 1..Len(text) |->
       CASE text[i] = "A" -> "a"
         [] text[i] = "E" -> "e"
         [] text[i] = "L" -> "l"
         [] text[i] = "N" -> "n"
         [] text[i] = "T" -> "t"
         [] text[i] = "X" -> "x"
         [] text[i] = "Y" -> "y"
         [] OTHER -> text[i]]

\* str.strip(): the spaces at both ends are removed
strip(text) ==
    LET inside == {i \in 1..Len(text) : text[i] # " "}
    IN  IF inside = {} THEN << >>
        ELSE SubSeq(text,
                    CHOOSE i \in inside : \A j \in inside : i <= j,
                    CHOOSE i \in inside : \A j \in inside : j <= i)

\* needle in text
Contains(needle, text) ==
    \E i \in 0..(Len(text) - Len(needle)) :
       SubSeq(text, i + 1, i + Len(needle)) = needle

\* a bug: the key and the description of an item are not searched
search_memory_value_values_only(memory, key_order, query, category) ==
    LET query_lower == strip(lower(query))
        categories_to_search ==
            IF category # None THEN {category[1]} ELSE DOMAIN memory.categories
        hit(i) ==
            LET item_data == memory.categories[i[1]].items[i[2]]
            IN  Contains(query_lower, lower(value_chars(item_data.value)))
        matches(cat) ==
            LET found == SelectSeq(key_order, LAMBDA i : i[1] = cat /\ hit(i))
            IN  [n \in 1..Len(found) |->
                   LET item_data == memory.categories[cat].items[found[n][2]]
                   IN  [key |-> found[n][2],
                        value |-> item_data.value,
                        description |-> item_data.description,
                        created_at |-> item_data.created_at,
                        last_updated |-> item_data.last_updated]]
        conv_matches ==
            IF category = None \/ category = Some("conversation_history")
            THEN SelectSeq(memory.conversation_history,
                           LAMBDA conv : \/ Contains(query_lower, lower(message_chars(conv.user)))
                                         \/ Contains(query_lower, lower(message_chars(conv.bot))))
            ELSE << >>
        found_in == {cat \in categories_to_search \cap DOMAIN memory.categories :
                       matches(cat) # << >>}
    IN  [cat \in found_in \cup (IF conv_matches # << >>
                                THEN {"conversation_history"} ELSE {}) |->
           IF cat = "conversation_history" /\ conv_matches # << >>
           THEN conv_matches
           ELSE matches(cat)]

\* the mapping search_memory returns from the loaded memory, whose items
\* are kept in the order key_order; category is None or Some(name)
search_memory_value(memory, key_order, query, category) ==
    LET query_lower == strip(lower(query))
        categories_to_search ==
            IF category # None THEN {category[1]} ELSE DOMAIN memory.categories
        hit(i) ==
            LET item_data == memory.categories[i[1]].items[i[2]]
            IN  \/ Contains(query_lower, lower(chars(i[2])))
                \/ Contains(query_lower, lower(value_chars(item_data.value)))
                \/ Contains(query_lower, lower(chars(item_data.description)))
        matches(cat) ==
            LET found == SelectSeq(key_order, LAMBDA i : i[1] = cat /\ hit(i))
            IN  [n \in 1..Len(found) |->
                   LET item_data == memory.categories[cat].items[found[n][2]]
                   IN  [key |-> found[n][2],
                        value |-> item_data.value,
                        description |-> item_data.description,
                        created_at |-> item_data.created_at,
                        last_updated |-> item_data.last_updated]]
        conv_matches ==
            IF category = None \/ category = Some("conversation_history")
            THEN SelectSeq(memory.conversation_history,
                           LAMBDA conv : \/ Contains(query_lower, lower(message_chars(conv.user)))
                                         \/ Contains(query_lower, lower(message_chars(conv.bot))))
            ELSE << >>
        found_in == {cat \in categories_to_search \cap DOMAIN memory.categories :
                       matches(cat) # << >>}
    IN  [cat \in found_in \cup (IF conv_matches # << >>
                                THEN {"conversation_history"} ELSE {}) |->
           IF cat = "conversation_history" /\ conv_matches # << >>
           THEN conv_matches
           ELSE matches(cat)]

search_memory(query, category) ==
    /\ memory_file' = _ensure_memory_structure(memory_file, fernet, now)
    /\ \E memory \in {load_memory(memory_file, fernet, now)} :
          last' = Returned("search_memory", None, None, TRUE, None,
                           Some([query |-> query, category |-> category,
                                 value |-> search_memory_value(memory, order,
                                                               query, category)]))
    /\ CredentialsUnchanged /\ UNCHANGED <<used, fernet, plain, order>>

Queries ==
    {<<"N", "e", "t">>, <<"n", "e", "t", " ">>, <<"Y", "9">>, <<"c", "L">>,
     <<"h">>, <<"z">>, << >>}
Filters == {None, Some("passwords"), Some("conversation_history"), Some("notes")}

NextSearch ==
    \/ \E i \in SearchItems : store_item(i[1], i[2], i[3], i[4])
    \/ \E u \in ShortMessages, b \in ShortMessages : add_conversation_entry(u, b)
    \/ \E q \in Queries, c \in Filters : search_memory(q, c)

SpecSearch == InitMemory /\ [][NextSearch]_vars

(* ---------- a memory file that was changed outside the program --------- *)
\* the memory after store_item on a default encrypted category, on a default
\* clear one and on a new one, and one add_conversation_entry
PopulatedMemory(f) ==
    LET item == [value |-> <<"X", "y", "9">>, created_at |-> 0 - TickStep,
                 last_updated |-> 0 - TickStep, description |-> ""]
        items == SetItem(NoItems, "Netflix", item)
        memory == [default_memory(f, 0 - TickStep) EXCEPT
                     !.categories.passwords.items = items,
                     !.categories.reminders.items = items,
                     !.conversation_history =
                        <<NewEntry(Message("h", 2), Message("h", 2), 0 - TickStep)>>]
    IN  SetCategory(memory, "notes", [NewCategory("notes", "") EXCEPT !.items = items])

PopulatedPlain ==
    [i \in {<<c, "Netflix">> : c \in {"passwords", "reminders", "notes"}} |->
       <<"X", "y", "9">>]

\* the file with each top-level key as written, missing or of another type
Damage(memory, st) ==
    [k \in {j \in DOMAIN st : st[j] # "missing"} |->
       IF st[k] # "other_type" THEN memory[k]
       ELSE IF k = "conversation_history" THEN NotAList ELSE NotADict]

\* the files load_memory may find: the one the program wrote with the key
\* w, with top-level keys missing or of another type; with a category that
\* is not a mapping or one without items, beside a missing key; or not
\* parseable
DamagedFiles(w) ==
    LET written == _save_memory(PopulatedMemory(w), w, 0 - TickStep)[1]
        keys == {"metadata", "categories", "conversation_history"}
        no_metadata == [k \in keys |-> IF k = "metadata" THEN "missing" ELSE "as_written"]
    IN  {Damage(written, st) : st \in [keys -> {"as_written", "missing", "other_type"}]}
        \cup {Damage([written EXCEPT !.categories.passwords = NotADict], no_metadata),
              Damage([written EXCEPT !.categories.reminders = [encrypted |-> FALSE]],
                     no_metadata),
              Unparseable}

InitRepair ==
    /\ now = 0
    /\ file = None
    /\ backups = [k \in {} |-> None]
    /\ last = NoCall
    /\ used = 0
    /\ streak = [p \in GoodPhones |-> 0]
    /\ writable = TRUE
    /\ fernet \in Fernets
    /\ \/ memory_file = None /\ plain = [i \in {} |-> None] /\ order = << >>
       \/ /\ \E w \in Fernets : \E damaged \in DamagedFiles(w) :
                memory_file = Some(damaged)
          /\ plain = PopulatedPlain
          /\ order = <<<<"passwords", "Netflix">>, <<"reminders", "Netflix">>,
                       <<"notes", "Netflix">>>>
    /\ calls = NoCalls
    /\ inodes = NoInodes
    /\ memory_key = None
    /\ managers = NoManagers
    /\ logins = NoLogins
    /\ checks = 0

NextRepair ==
    \/ LoadMemory
    \/ \E key \in Fernets : MemoryManager(key)
    \/ \E c \in Categories, k \in Keys : get_item(c, k)
    \/ \E c \in Categories : get_category_items(c)

SpecRepair == InitRepair /\ [][NextRepair]_vars

(* --------------------- items that are stored again -------------------- *)
UpdateValues == {<<"X", "y", "9">>, <<"N", "E", "T">>}

NextUpdate ==
    \/ Tick
    \/ \E c \in {"passwords", "notes"}, k \in Keys, v \in UpdateValues, d \in Descriptions :
          store_item(c, k, v, d)

SpecUpdate == InitMemory /\ [][NextUpdate]_vars

(* ------------- stores on a file changed outside the program ----------- *)
NextRepairStore ==
    \/ \E c \in {"favorites", "notes"}, v \in UpdateValues : store_item(c, "wifi", v, "")
    \/ LoadMemory

SpecRepairStore == InitRepair /\ [][NextRepairStore]_vars

(* ------------------------------ the export --------------------------- *)
\* a bug: the keys of the items of an encrypted category are exported
export_memory_value_with_keys(memory, include_sensitive, t) ==
    [metadata |-> memory.metadata,
     categories |->
        [c \in DOMAIN memory.categories |->
           [item_count |-> Cardinality(DOMAIN memory.categories[c].items),
            encrypted |-> memory.categories[c].encrypted,
            items |-> IF include_sensitive \/ ~ memory.categories[c].encrypted
                      THEN memory.categories[c].items
                      ELSE [k \in DOMAIN memory.categories[c].items |->
                              [sensitive |-> TRUE]]]],
     exported_at |-> t,
     include_sensitive |-> include_sensitive]

\* the dict export_memory returns for the loaded memory
export_memory_value(memory, include_sensitive, t) ==
    [metadata |-> memory.metadata,
     categories |->
        [c \in DOMAIN memory.categories |->
           [item_count |-> Cardinality(DOMAIN memory.categories[c].items),
            encrypted |-> memory.categories[c].encrypted,
            items |-> IF include_sensitive \/ ~ memory.categories[c].encrypted
                      THEN memory.categories[c].items
                      ELSE [count |-> Cardinality(DOMAIN memory.categories[c].items),
                            sensitive |-> TRUE]]],
     exported_at |-> t,
     include_sensitive |-> include_sensitive]

export_memory(include_sensitive) ==
    /\ memory_file' = _ensure_memory_structure(memory_file, fernet, now)
    /\ \E memory \in {load_memory(memory_file, fernet, now)} :
          last' = Returned("export_memory", None, None, TRUE, None,
                           Some([include_sensitive |-> include_sensitive,
                                 value |-> export_memory_value(memory, include_sensitive, now)]))
    /\ CredentialsUnchanged /\ UNCHANGED <<used, fernet, plain, order>>

\* every operation that reads, on a file that stores and time change
NextReads ==
    \/ Tick
    \/ \E i \in SearchItems : store_item(i[1], i[2], i[3], i[4])
    \/ \E u \in ShortMessages, b \in ShortMessages : add_conversation_entry(u, b)
    \/ \E c \in Categories, k \in Keys : get_item(c, k)
    \/ \E c \in Categories : get_category_items(c)
    \/ \E q \in {<<"N", "e", "t">>}, c \in {None} : search_memory(q, c)
    \/ \E limit \in {1, 10} : get_recent_conversations(limit)
    \/ get_memory_stats
    \/ \E include_sensitive \in BOOLEAN : export_memory(include_sensitive)

SpecReads == InitMemory /\ [][NextReads]_vars

(* ------------- two threads that store items at the same time ---------- *)
\* store_item is a load of the whole file, a change of the copy in memory
\* and a save; the save opens the .tmp sibling of the memory file (the same
\* path for every thread of the user), writes the JSON text to it through a
\* buffer, and renames it over the memory file.  A text longer than the
\* buffer reaches the file in several writes: the model keeps two, a first
\* half and a second half, and records for each half of each file the thread
\* that wrote it last ("empty" after a truncation, "file" for the text that
\* was there before the threads started).
RaceItems ==
    {<<"passwords", "Netflix", <<"X", "y", "9">>, "">>,
     <<"reminders", "wifi", <<"N", "E", "T">>, "clave">>}

\* what a reader finds in a file whose halves were written by h: the text of
\* one writer when both halves are its own, and no JSON document otherwise
\* (a text cut short, or the start of one text followed by the end of
\* another)
FileText(h, cs) ==
    IF h.first = h.second /\ h.first \in Threads
    THEN cs[h.first].output[1]
    ELSE Unparseable

\* memory = self.load_memory() and the change of the copy (lines 258-272)
store_item_load(t, category, key, value, description) ==
    /\ calls[t].pc = "idle"
    /\ LET memory == load_memory(memory_file, fernet, now)
           data == IF category \in DOMAIN memory.categories
                   THEN memory.categories[category]
                   ELSE NewCategory(category, description)
           item == [value |-> value, created_at |-> now, last_updated |-> now,
                    description |-> description]
           stored == [data EXCEPT !.items = SetItem(data.items, key, item)]
       IN  calls' = [calls EXCEPT ![t] =
                       [pc |-> "open", category |-> category, key |-> key,
                        value |-> Some(value),
                        memory |-> Some(SetCategory(memory, category, stored)),
                        output |-> None, fd |-> "closed"]]
    /\ UNCHANGED <<logins, checks, memory_key, managers, now, file, backups, last, used, streak, writable,
                   memory_file, fernet, plain, order, inodes>>

\* _save_memory up to open(temp_file, 'w'): the text to write is made, the
\* .tmp file is created, or emptied when it is there
_save_memory_open(t) ==
    /\ calls[t].pc = "open"
    /\ calls' = [calls EXCEPT
                   ![t].pc = "dump",
                   ![t].output = _save_memory(calls[t].memory[1], fernet, now),
                   ![t].fd = "temp"]
    /\ inodes' = [inodes EXCEPT !.temp = Some([first |-> "empty", second |-> "empty"])]
    /\ UNCHANGED <<logins, checks, memory_key, managers, now, file, backups, last, used, streak, writable,
                   memory_file, fernet, plain, order>>

\* json.dump(memory_to_save, f): one half of the text goes to the file the
\* thread has open, at the place the thread has reached in it; that file is
\* the memory file itself once another thread renamed the .tmp file
_save_memory_dump(t) ==
    /\ calls[t].pc \in {"dump", "dump2"}
    /\ LET half(h) == IF calls[t].pc = "dump" THEN [h EXCEPT !.first = t]
                      ELSE [h EXCEPT !.second = t]
           closed == [calls EXCEPT
                        ![t].pc = IF calls[t].pc = "dump" THEN "dump2" ELSE "replace",
                        ![t].fd = IF calls[t].pc = "dump" THEN calls[t].fd ELSE "closed"]
       IN  /\ calls' = closed
           /\ IF calls[t].fd = "temp"
              THEN /\ inodes' = [inodes EXCEPT !.temp = Some(half(inodes.temp[1]))]
                   /\ UNCHANGED <<memory_file, order>>
              ELSE /\ inodes' = [inodes EXCEPT !.live = half(inodes.live)]
                   /\ \E text \in {FileText(half(inodes.live), calls)} :
                        /\ memory_file' = Some(text)
                        /\ order' = IF text = Unparseable THEN order
                                    ELSE KeyOrder(Append(order, <<calls[t].category, calls[t].key>>), text)
    /\ UNCHANGED <<logins, checks, memory_key, managers, now, file, backups, last, used, streak, writable, fernet, plain>>

\* temp_file.replace(self.memory_file) and the return of store_item: the
\* .tmp file takes the place of the memory file, with whatever it holds and
\* with the threads that still write to it; when another thread renamed it
\* away the replace fails and store_item returns False
_save_memory_replace(t) ==
    /\ calls[t].pc = "replace"
    /\ IF inodes.temp # None
       THEN /\ inodes' = [temp |-> None, live |-> inodes.temp[1]]
            /\ calls' = [u \in Threads |->
                           IF u = t THEN [calls[u] EXCEPT !.pc = "done"]
                           ELSE IF calls[u].fd = "temp" THEN [calls[u] EXCEPT !.fd = "live"]
                           ELSE calls[u]]
            /\ \E text \in {FileText(inodes.temp[1], calls)} :
                 /\ memory_file' = Some(text)
                 /\ order' = IF text = Unparseable THEN order
                             ELSE KeyOrder(Append(order, <<calls[t].category, calls[t].key>>), text)
            /\ plain' = [i \in DOMAIN plain \cup {<<calls[t].category, calls[t].key>>} |->
                           IF i = <<calls[t].category, calls[t].key>>
                           THEN calls[t].value[1] ELSE plain[i]]
            /\ MemCall("store_item", TRUE, calls[t].category, calls[t].key, calls[t].value)
       ELSE /\ calls' = [calls EXCEPT ![t].pc = "failed"]
            /\ MemCall("store_item", FALSE, calls[t].category, calls[t].key, calls[t].value)
            /\ UNCHANGED <<memory_file, plain, order, inodes>>
    /\ UNCHANGED <<logins, checks, memory_key, managers, now, file, backups, used, streak, writable, fernet>>

NextRace ==
    \/ \E t \in Threads, i \in RaceItems : store_item_load(t, i[1], i[2], i[3], i[4])
    \/ \E t \in Threads : _save_memory_open(t)
    \/ \E t \in Threads : _save_memory_dump(t)
    \/ \E t \in Threads : _save_memory_replace(t)

SpecRace == InitMemory /\ [][NextRace]_vars

(* -------- threads that construct a MemoryManager at the same time ----- *)
\* Fernet.generate_key(): random bytes, different in every call
generate_key(t) == IF t = "t1" THEN KEY ELSE "k2"

\* what a construction step leaves alone
KeyStepUnchanged ==
    UNCHANGED <<now, file, backups, last, used, streak, writable,
                memory_file, fernet, plain, order, calls, inodes, logins, checks>>

\* if key_file.exists()
_get_encryption_key_exists(t) ==
    /\ managers[t].pc = "new"
    /\ managers' = [managers EXCEPT
                      ![t].pc = IF memory_key # None THEN "read" ELSE "generate"]
    /\ UNCHANGED memory_key
    /\ KeyStepUnchanged

\* return f.read(): the bytes that are in the file at that moment
_get_encryption_key_read(t) ==
    /\ managers[t].pc = "read"
    /\ managers' = [managers EXCEPT ![t].pc = "key", ![t].encryption_key = memory_key]
    /\ UNCHANGED memory_key
    /\ KeyStepUnchanged

\* new_key = Fernet.generate_key(); open(key_file, 'wb'): the file is
\* created, or emptied when another thread made it in the meantime
_get_encryption_key_open(t) ==
    /\ managers[t].pc = "generate"
    /\ managers' = [managers EXCEPT ![t].pc = "write"]
    /\ memory_key' = Some("")
    /\ KeyStepUnchanged

\* f.write(new_key) and return new_key
_get_encryption_key_write(t) ==
    /\ managers[t].pc = "write"
    /\ managers' = [managers EXCEPT ![t].pc = "key",
                                    ![t].encryption_key = Some(generate_key(t)),
                                    ![t].wrote = TRUE]
    /\ memory_key' = Some(generate_key(t))
    /\ KeyStepUnchanged

\* Fernet(self.encryption_key) if self.encryption_key else None
Fernet(encryption_key) ==
    IF encryption_key = None \/ encryption_key = Some("") THEN None ELSE encryption_key

\* the rest of __init__; the instance of t is the one whose calls follow
MemoryManager_built(t) ==
    /\ managers[t].pc = "key"
    /\ managers' = [managers EXCEPT ![t].pc = "built"]
    /\ fernet' = Fernet(managers[t].encryption_key)
    /\ memory_file' = _ensure_memory_structure(memory_file, fernet', now)
    /\ MemCall("MemoryManager", TRUE, None, None, None)
    /\ UNCHANGED <<now, file, backups, used, streak, writable,
                   plain, order, calls, inodes, memory_key, logins, checks>>

NextKeyRace ==
    \/ \E t \in Threads : _get_encryption_key_exists(t)
    \/ \E t \in Threads : _get_encryption_key_read(t)
    \/ \E t \in Threads : _get_encryption_key_open(t)
    \/ \E t \in Threads : _get_encryption_key_write(t)
    \/ \E t \in Threads : MemoryManager_built(t)
    \/ memory_file # None
       /\ \E i \in RaceItems : store_item(i[1], i[2], i[3], i[4])
    \/ memory_file # None
       /\ \E i \in RaceItems : get_item(i[1], i[2])

SpecKeyRace == Init /\ [][NextKeyRace]_vars

(* ---------- an installation that already has a credential file -------- *)
\* timestamps of files written before the run starts
FileTime == 0 - TickStep
BackupTime == 0 - (2 * TickStep)

\* a record of the unsalted scheme (validate_user, lines 254-258)
LegacyRecord(password, t) ==
    [password_hash |-> sha256(password),
     salt |-> None,
     created_at |-> t,
     last_login |-> None,
     is_active |-> TRUE,
     login_attempts |-> 0,
     locked_until |-> None,
     preferences |-> DefaultPreferences]

Stored(users, t) ==
    [db |-> [metadata |-> [version |-> "2.1.0", created_at |-> t, last_modified |-> t,
                           user_count |-> Cardinality(DOMAIN users),
                           integrity_hash |-> _calculate_integrity_hash(users)],
             users |-> users],
     mtime |-> t]

LegacyFile == Stored([p \in {PhoneA} |-> LegacyRecord(PwAbc123, FileTime)], FileTime)

\* a file whose users mapping was changed without its integrity_hash
MismatchedFile ==
    [Stored(EmptyUsers, FileTime) EXCEPT
        !.db.users = [p \in {PhoneA} |-> NewRecord(PwAbc123, "s1", FileTime)]]

OldBackups == [k \in {BackupTime} |-> Stored(EmptyUsers, BackupTime)]

InitEnv ==
    /\ now = 0
    /\ file \in {None, Some(LegacyFile), Some(MismatchedFile)}
    /\ backups \in {[k \in {} |-> None], OldBackups}
    /\ file = None => backups = [k \in {} |-> None]
    /\ last = NoCall
    \* the write that left the file the run starts with counts as made
    /\ used = IF file = None THEN 0 ELSE 1
    /\ streak = [p \in GoodPhones |-> 0]
    /\ writable = TRUE
    /\ memory_file = None
    /\ fernet = None
    /\ plain = [i \in {} |-> None]
    /\ order = << >>
    /\ calls = NoCalls
    /\ inodes = NoInodes
    /\ memory_key = None
    /\ managers = NoManagers
    /\ logins = NoLogins
    /\ checks = 0

SpecEnv == InitEnv /\ [][Next]_vars

(* ------------- threads that validate a user at the same time ---------- *)
\* how many wrong passwords a run compares with the stored hash
MaxChecks == 7

WrongPasswords == {PwWrong12, PwXyz789}

InitLogins ==
    /\ now = 0
    /\ file = Some(Stored([p \in {PhoneA} |-> NewRecord(PwAbc123, "s1", FileTime)], FileTime))
    /\ backups = [k \in {} |-> None]
    /\ last = NoCall
    /\ used = 1
    /\ streak = [p \in GoodPhones |-> 0]
    /\ writable = TRUE
    /\ memory_file = None
    /\ fernet = None
    /\ plain = [i \in {} |-> None]
    /\ order = << >>
    /\ calls = NoCalls
    /\ inodes = NoInodes
    /\ memory_key = None
    /\ managers = NoManagers
    /\ logins = NoLogins
    /\ checks = 0

\* validate_user up to the call of _save_database: the file is loaded, the
\* password is compared with the record of the loaded copy, and the copy is
\* changed
validate_user_load(t, phone, password) ==
    /\ logins[t].pc = "idle"
    /\ checks < MaxChecks
    /\ LET db == _load_database(file, now)
           returns(result) ==
               /\ Done("validate_user", phone, password, result)
               /\ UNCHANGED <<logins, checks>>
           saves(rec, result) ==
               /\ logins' = [logins EXCEPT ![t] =
                               [pc |-> "save", phone |-> phone, password |-> password,
                                db |-> Some(SetUser(db, phone, rec)), result |-> result]]
               /\ UNCHANGED last
       IN  IF ~ UserExists(db, phone)
           THEN returns(FALSE)
           ELSE LET user_data == db.users[phone]
                IN  IF _is_account_locked(user_data, now)
                    THEN returns(FALSE)
                    ELSE IF user_data.salt = None
                    THEN IF sha256(password) = user_data.password_hash
                         THEN /\ \E new_salt \in Salts :
                                   saves(LegacyMigrate(user_data, password, new_salt, now), TRUE)
                              /\ UNCHANGED checks
                         ELSE /\ Done("validate_user", phone, password, FALSE)
                              /\ checks' = checks + 1
                              /\ UNCHANGED logins
                    ELSE IF _hash_password(password, user_data.salt[1]) = user_data.password_hash
                    THEN saves(LoginSuccess(user_data, now), TRUE) /\ UNCHANGED checks
                    ELSE saves(LoginFailure(user_data, now), FALSE) /\ checks' = checks + 1
    /\ UNCHANGED <<now, file, backups, used, streak, writable, memvars>>

\* self._save_database(db) and the return: the copy of the thread replaces
\* the file, whatever other threads saved since the copy was loaded
validate_user_save(t) ==
    /\ logins[t].pc = "save"
    /\ \E s \in TrySave(disk, logins[t].db[1], now) : Write(s.d)
    /\ Done("validate_user", logins[t].phone, logins[t].password, logins[t].result)
    /\ logins' = [logins EXCEPT ![t] = NoLogins[t]]
    /\ UNCHANGED <<now, used, streak, writable, memvars, checks>>

NextLogins ==
    \/ \E t \in Threads, password \in WrongPasswords : validate_user_load(t, PhoneA, password)
    \/ \E t \in Threads : validate_user_save(t)

SpecLogins == InitLogins /\ [][NextLogins]_vars

(* ------------- create_user over every phone and password -------------- *)
NextCreate ==
    \/ \E phone \in Phones, password \in Passwords : create_user(phone, password)
    \/ \E phone \in GoodPhones : delete_user(phone)

SpecCreate == Init /\ [][NextCreate]_vars

(* ------------------ a file system that refuses writes ----------------- *)
\* the directory becomes read-only or the disk full, or writable again
SetWritable(w) ==
    /\ writable # w
    /\ writable' = w
    /\ Done("none", None, None, FALSE)
    /\ UNCHANGED <<now, file, backups, used, streak, memvars, loginvars>>

InitFaulty ==
    /\ now = 0
    /\ file \in {None, Some(LegacyFile), Some(MismatchedFile)}
    /\ backups \in {[k \in {} |-> None], OldBackups}
    /\ file = None => backups = [k \in {} |-> None]
    /\ last = NoCall
    /\ used = IF file = None THEN 0 ELSE 1
    /\ streak = [p \in GoodPhones |-> 0]
    /\ writable \in BOOLEAN
    /\ memory_file = None
    /\ fernet = None
    /\ plain = [i \in {} |-> None]
    /\ order = << >>
    /\ calls = NoCalls
    /\ inodes = NoInodes
    /\ memory_key = None
    /\ managers = NoManagers
    /\ logins = NoLogins
    /\ checks = 0

\* the public operations of DatabaseManager
NextFaulty ==
    \/ \E w \in BOOLEAN : SetWritable(w)
    \/ initialize
    \/ \E i \in CreateInputs : create_user(i[1], i[2])
    \/ \E phone \in LoginPhones, password \in LoginPasswords : validate_user(phone, password)
    \/ \E phone \in GoodPhones : get_user_data(phone)
    \/ \E phone \in LoginPhones, u \in PrefUpdates : update_user_preference(phone, u[1], u[2])
    \/ get_all_users
    \/ \E phone \in GoodPhones : delete_user(phone)

SpecFaulty == InitFaulty /\ [][NextFaulty]_vars

(* ----------------- calls cut short by a crash of the process ---------- *)
Crashed == Done("crash", None, None, FALSE)

\* _create_empty_db stopped between open(users_file, 'w') and the end of
\* json.dump (lines 61-62)
_create_empty_db_crash ==
    /\ file = None
    /\ file' = Some(Tear(_create_empty_db(disk, now).file[1]))
    /\ Crashed /\ Spend
    /\ UNCHANGED <<now, backups, streak, writable, memvars, loginvars>>

\* _save_database stopped after create_backup, while the temp file is being
\* written or before it replaces the credential file (lines 99-107)
_save_database_crash ==
    /\ file # None
    /\ \E d2 \in create_backup(disk, now) : Write(d2)
    /\ Crashed /\ Spend
    /\ UNCHANGED <<now, streak, writable, memvars, loginvars>>

\* restore_backup stopped while copy2 writes the credential file (line 479)
restore_backup_crash(h) ==
    /\ \E r \in RestoreOutcomes(disk, h, now) :
          /\ r.ok
          /\ file' = Some(Tear(r.d.file[1]))
          /\ backups' = r.d.backups
    /\ Crashed /\ Spend
    /\ UNCHANGED <<now, streak, writable, memvars, loginvars>>

NextCrash ==
    \/ Tick
    \/ initialize
    \/ \E i \in CreateInputs : create_user(i[1], i[2])
    \/ \E phone \in GoodPhones : delete_user(phone)
    \/ \E h \in {None} \cup {Some(k) : k \in DOMAIN backups} : restore_backup(h)
    \/ _create_empty_db_crash
    \/ _save_database_crash
    \/ \E h \in {None} \cup {Some(k) : k \in DOMAIN backups} : restore_backup_crash(h)

SpecCrash == Init /\ [][NextCrash]_vars

(* ------------- an installation with a used backup directory ----------- *)
\* saves made before the run starts, one per TickStep: create_user and
\* delete_user of PhoneA in turn after the initialize that made the file
PastSaves == 6
PastTime(i) == (i - (PastSaves + 1)) * TickStep

RECURSIVE PastDisk(_)
PastDisk(i) ==
    IF i = 0
    THEN _create_empty_db([file |-> None, backups |-> [k \in {} |-> None]], PastTime(0))
    ELSE LET d == PastDisk(i - 1)
             db == _load_database(d.file, PastTime(i))
             db2 == IF UserExists(db, PhoneA)
                    THEN [db EXCEPT !.users = [q \in DOMAIN db.users \ {PhoneA} |-> db.users[q]]]
                    ELSE SetUser(db, PhoneA, NewRecord(PwAbc123, "s1", PastTime(i)))
         IN  CHOOSE d2 \in _save_database(d, db2, PastTime(i)) : TRUE

InitBackups ==
    /\ now = 0
    /\ \E n \in (PastSaves - 2)..PastSaves :
          file = PastDisk(n).file /\ backups = PastDisk(n).backups
    /\ last = NoCall
    /\ used = 0
    /\ streak = [p \in GoodPhones |-> 0]
    /\ writable = TRUE
    /\ memory_file = None
    /\ fernet = None
    /\ plain = [i \in {} |-> None]
    /\ order = << >>
    /\ calls = NoCalls
    /\ inodes = NoInodes
    /\ memory_key = None
    /\ managers = NoManagers
    /\ logins = NoLogins
    /\ checks = 0

\* the calls of Next, the logins with the registered password only
NextBackups ==
    \/ Tick
    \/ initialize
    \/ \E i \in CreateInputs : create_user(i[1], i[2])
    \/ \E phone \in LoginPhones : validate_user(phone, PwAbc123)
    \/ \E phone \in LoginPhones, u \in PrefUpdates : update_user_preference(phone, u[1], u[2])
    \/ \E phone \in GoodPhones : delete_user(phone)
    \/ \E h \in {None} \cup {Some(k) : k \in DOMAIN backups} : restore_backup(h)

SpecBackups == InitBackups /\ [][NextBackups]_vars

(* ============================== claims ================================ *)
Registered(p) == file # None /\ p \in DOMAIN file[1].db.users
Rec(p) == file[1].db.users[p]
RegisteredAfter(p) == file' # None /\ p \in DOMAIN file'[1].db.users
RecAfter(p) == file'[1].db.users[p]

\* now < locked_until of the record
InLockout(rec, t) == rec.locked_until # None /\ t < rec.locked_until[1]

IsCall(op) == last'.op = op

\* C1: once 5 consecutive wrong-password validate_user calls have been made
\* for a registered phone, every validate_user call for it made while
\* now < locked_until returns false, whatever the password.
C1_LockoutRefusesEveryPassword ==
    [][(/\ IsCall("validate_user")
        /\ last'.phone \in DOMAIN streak
        /\ streak[last'.phone] = MAX_LOGIN_ATTEMPTS
        /\ Registered(last'.phone)
        /\ InLockout(Rec(last'.phone), now))
       => last'.result = FALSE]_vars

\* the correct password was refused during the lockout that followed 5 wrong ones
C1_Witness ==
    /\ last.op = "validate_user"
    /\ last.result = FALSE
    /\ Registered(last.phone)
    /\ streak[last.phone] = MAX_LOGIN_ATTEMPTS
    /\ InLockout(Rec(last.phone), now)
    /\ last.password = StoredPassword(Rec(last.phone))

\* C2: a validate_user call with a wrong password on a registered account that
\* is not locked returns false and adds exactly 1 to the persisted
\* login_attempts; locked_until becomes now + 30 minutes exactly when the new
\* login_attempts is >= 5.
C2_WrongPasswordCounts ==
    [][(/\ IsCall("validate_user")
        /\ Registered(last'.phone)
        /\ ~ InLockout(Rec(last'.phone), now)
        /\ last'.password # StoredPassword(Rec(last'.phone)))
       => (/\ last'.result = FALSE
           /\ RegisteredAfter(last'.phone)
           /\ RecAfter(last'.phone).login_attempts = Rec(last'.phone).login_attempts + 1
           /\ IF RecAfter(last'.phone).login_attempts >= 5
              THEN RecAfter(last'.phone).locked_until = Some(now + 30)
              ELSE RecAfter(last'.phone).locked_until = Rec(last'.phone).locked_until)]_vars

C4_LockoutExpires ==
    [][(/\ IsCall("validate_user")
        /\ Registered(last'.phone)
        /\ Rec(last'.phone).locked_until # None
        /\ now >= Rec(last'.phone).locked_until[1]
        /\ last'.password = StoredPassword(Rec(last'.phone)))
       => last'.result = TRUE]_vars

\* a login succeeded on a record whose lockout had run out
C4_Witness ==
    /\ last.op = "validate_user"
    /\ last.result = TRUE
    /\ now \in DOMAIN backups
    /\ last.phone \in DOMAIN backups[now].db.users
    /\ backups[now].db.users[last.phone].locked_until # None
    /\ backups[now].db.users[last.phone].locked_until[1] <= now

TenDigitsFrom3(phone) ==
    /\ Len(phone) = 10
    /\ \A i \in 1..Len(phone) : phone[i] \in Digits
    /\ phone[1] = "3"

SixCharsThreeLettersThreeDigits(password) ==
    /\ Len(password) >= 6
    /\ \E I \in SUBSET (1..Len(password)) :
          Cardinality(I) = 3 /\ \A i \in I : password[i] \in Letters
    /\ \E I \in SUBSET (1..Len(password)) :
          Cardinality(I) = 3 /\ \A i \in I : password[i] \in Digits

C6_CreateAcceptsExactly ==
    [][IsCall("create_user")
       => (last'.result = TRUE
           <=> (/\ TenDigitsFrom3(last'.phone)
                /\ SixCharsThreeLettersThreeDigits(last'.password)
                /\ ~ Registered(last'.phone)))]_vars

\* a well-formed call was accepted, and one was rejected for its password only
C6_Witness ==
    /\ last.op = "create_user"
    /\ last.result = FALSE
    /\ TenDigitsFrom3(last.phone)
    /\ ~ Registered(last.phone)
    /\ Len(last.password) >= 6
    /\ \E q \in GoodPhones : Registered(q)

\* C7: create_user on a registered phone returns false and changes neither the
\* credential file nor the backup files.
C7_DuplicateCreateChangesNothing ==
    [][(IsCall("create_user") /\ Registered(last'.phone))
       => (last'.result = FALSE /\ file' = file /\ backups' = backups)]_vars

\* a well-formed create_user was refused for a phone that is registered
C7_Witness ==
    /\ last.op = "create_user"
    /\ last.result = FALSE
    /\ Registered(last.phone)
    /\ SixCharsThreeLettersThreeDigits(last.password)

\* C8: after create_user returned true the persisted record has is_active,
\* login_attempts = 0, locked_until = null and the default preferences, and the
\* next validate_user for the phone returns true exactly for that password.
C8_CreatedUserLogsIn ==
    [][/\ (IsCall("create_user") /\ last'.result = TRUE)
          => (/\ RegisteredAfter(last'.phone)
              /\ RecAfter(last'.phone).is_active = TRUE
              /\ RecAfter(last'.phone).login_attempts = 0
              /\ RecAfter(last'.phone).locked_until = None
              /\ RecAfter(last'.phone).preferences =
                    ("audio_enabled" :> "true" @@ "font_size" :> "medium"
                       @@ "theme" :> "default"))
       /\ (/\ last.op = "create_user" /\ last.result = TRUE
           /\ IsCall("validate_user") /\ last'.phone = last.phone)
          => (last'.result = TRUE <=> last'.password = last.password)]_vars

\* the first login after the creation: the file replaced by the save held the
\* record as created at this time
C8_Witness ==
    /\ last.op = "validate_user"
    /\ last.result = TRUE
    /\ now \in DOMAIN backups
    /\ last.phone \in DOMAIN backups[now].db.users
    /\ backups[now].db.users[last.phone].created_at = now
    /\ backups[now].db.users[last.phone].last_login = None
    /\ backups[now].db.users[last.phone].login_attempts = 0
    /\ backups[now].mtime = now

\* C9: from a fresh environment the persisted credential file always has
\* integrity_hash = hash(users) and user_count = number of users.
C9_FileIsConsistent ==
    file # None
    => (/\ file[1].db.metadata.integrity_hash = <<"sha256", file[1].db.users>>
        /\ file[1].db.metadata.user_count = Cardinality(DOMAIN file[1].db.users))

C9_Witness ==
    /\ file # None
    /\ Cardinality(DOMAIN file[1].db.users) = 2
    /\ file[1].db.metadata.user_count = 2

\* C10: initialize() on a credential file whose integrity_hash does not match
\* its users leaves as the live file either the contents of the latest backup
\* or a fresh empty database, never the mismatched file.
C10_InitializeRepairsMismatch ==
    [][(/\ IsCall("initialize")
        /\ file # None
        /\ file[1].db.metadata.integrity_hash # <<"sha256", file[1].db.users>>)
       => (/\ file' # None
           /\ file'[1].db.metadata.integrity_hash = <<"sha256", file'[1].db.users>>
           /\ \/ \E k \in DOMAIN backups :
                    /\ \A j \in DOMAIN backups : backups[k].mtime >= backups[j].mtime
                    /\ file'[1].db = backups[k].db
              \/ /\ DOMAIN file'[1].db.users = {}
                 /\ file'[1].db.metadata.user_count = 0)]_vars

\* C11: right after a create_user, validate_user, update_user_preference or
\* delete_user call that saved over an existing credential file, some backup
\* file holds the contents the credential file had just before the call.
C11_SaveKeepsPreviousContents ==
    [][(/\ last'.op \in {"create_user", "validate_user",
                         "update_user_preference", "delete_user"}
        /\ file # None
        /\ (last'.result = TRUE \/ file' # file))
       => \E k \in DOMAIN backups' : backups'[k].db = file[1].db]_vars

\* a save was made while the directory held 5 backups, after a restore had
\* put back a file older than all of them but the one restored
C11_Witness ==
    /\ last.op \in {"create_user", "delete_user"}
    /\ last.result = TRUE
    /\ Cardinality(DOMAIN backups) = 5
    /\ now \in DOMAIN backups
    /\ \E j \in DOMAIN backups : backups[j].mtime > backups[now].mtime

\* C12: there are never more than 5 backup files, and a call that changes the
\* backup directory leaves in it the 5 most recently modified of the files it
\* held plus the copy of the credential file just taken (all of them when
\* they are 5 or fewer), each with its contents.
C12_FiveMostRecentBackupsKept ==
    [][/\ Cardinality(DOMAIN backups') <= 5
       /\ (file # None /\ backups' # backups)
          => LET taken == [k \in DOMAIN backups \cup {now} |->
                            IF k = now THEN file[1] ELSE backups[k]]
                 kept == DOMAIN backups'
             IN  /\ kept \subseteq DOMAIN taken
                 /\ \A k \in kept : backups'[k] = taken[k]
                 /\ Cardinality(DOMAIN taken) <= 5 => kept = DOMAIN taken
                 /\ Cardinality(DOMAIN taken) > 5 => Cardinality(kept) = 5
                 /\ \A k \in kept : \A j \in DOMAIN taken \ kept :
                        taken[k].mtime >= taken[j].mtime]_vars

\* a backup made before the run was deleted by the pruning, and 5 are left
C12_Witness ==
    /\ Cardinality(DOMAIN backups) = 5
    /\ now \in DOMAIN backups
    /\ Cardinality({k \in DOMAIN backups : k < 0}) < PastSaves - 2

\* C13: restore_backup with no handle selects a most recently modified
\* backup; with no backup file it returns false and changes nothing; when it
\* returns true the credential file holds the contents the selected backup
\* had at the call, and the contents the credential file had are in a backup.
Selected(h) ==
    IF h = None
    THEN {k \in DOMAIN backups : \A j \in DOMAIN backups : backups[k].mtime >= backups[j].mtime}
    ELSE {h[1]} \cap DOMAIN backups

C13_RestoreInstallsSelectedBackup ==
    [][IsCall("restore_backup")
       => /\ (DOMAIN backups = {})
             => (last'.result = FALSE /\ file' = file /\ backups' = backups)
          /\ (last'.result = TRUE)
             => (/\ file' # None
                 /\ \E k \in Selected(last'.handle) : file'[1].db = backups[k].db
                 /\ file # None
                    => \E j \in DOMAIN backups' : backups'[j].db = file[1].db)]_vars

\* C14: initialize() with no credential file leaves a file with users = {},
\* user_count = 0 and a matching integrity_hash; initialize() on a file whose
\* integrity_hash matches leaves its users mapping, user_count and
\* integrity_hash as they were, so a second call in a fresh environment finds
\* and leaves the same empty database.
EmptyAndValid(f) ==
    /\ f # None
    /\ DOMAIN f[1].db.users = {}
    /\ f[1].db.metadata.user_count = 0
    /\ f[1].db.metadata.integrity_hash = <<"sha256", f[1].db.users>>

C14_InitializeIsIdempotent ==
    [][IsCall("initialize")
       => /\ file = None => EmptyAndValid(file')
          /\ EmptyAndValid(file) => EmptyAndValid(file')
          /\ (/\ file # None
              /\ file[1].db.metadata.integrity_hash = <<"sha256", file[1].db.users>>)
             => (/\ file' # None
                 /\ file'[1].db.users = file[1].db.users
                 /\ file'[1].db.metadata.user_count = file[1].db.metadata.user_count
                 /\ file'[1].db.metadata.integrity_hash
                       = file[1].db.metadata.integrity_hash)]_vars

\* the second initialize() of a fresh environment: the file made by the first
\* call is there unchanged, next to the backup the second call took of it
C14_Witness ==
    /\ last.op = "initialize"
    /\ EmptyAndValid(file)
    /\ file[1].db.metadata.created_at = now
    /\ DOMAIN backups = {now}
    /\ backups[now] = file[1]

\* C15: no public operation of DatabaseManager (initialize, create_user,
\* validate_user, get_user_data, update_user_preference, get_all_users,
\* delete_user) raises to its caller, whether or not the file system accepts
\* writes and whatever the credential file holds.
C15_NoOperationRaises ==
    last.op \in {"initialize", "create_user", "validate_user", "get_user_data",
                 "update_user_preference", "get_all_users", "delete_user"}
    => last.raised = FALSE

\* C16: whenever a call that writes the credential file is cut short by a
\* crash, the credential file is absent or complete: it is never left holding
\* part of a write.
C16_CredentialFileNeverTorn ==
    file # None => ~ Torn(file[1])

\* the value of item (c, k) as it is in the memory file
OnDisk(c, k) == memory_file[1].categories[c].items[k].value
OnDiskAfter(c, k) == memory_file'[1].categories[c].items[k].value

\* C17: after store_item(category, key, value) returned true, get_item(category,
\* key) of the same instance returns value and get_category_items(category)
\* maps key to value, for default and new categories, flagged encrypted or
\* not, with or without a key.
C17_StoredItemIsReadBack ==
    [][(IsCall("store_item") /\ last'.result = TRUE)
       => \A a \in {last'.value[1]} :
             /\ get_item_value(memory_file', fernet', now', a.category, a.key) = a.value
             /\ \A items \in {get_category_items_value(memory_file', fernet', now', a.category)} :
                   a.key \in DOMAIN items /\ items[a.key] = a.value[1]]_vars

\* get_item returned the text of an item that is a token in the file
C17_Witness ==
    /\ last.op = "get_item"
    /\ fernet # None
    /\ \E a \in {last.value[1]} :
          /\ a.value # None
          /\ a.value[1] # << >>
          /\ OnDisk(a.category, a.key) = <<"fernet", fernet[1], a.value[1]>>

\* C18: after every save made by an instance that has a key, every item of a
\* category flagged encrypted whose value is not empty is in the file as a
\* token of its value, encrypted once (the file value differs from the value
\* and decrypts to it), and every item of a category not flagged encrypted is
\* in the file as its value.
C18_EncryptedAtRestOnce ==
    [][(/\ fernet' # None
        /\ \/ last'.op \in {"store_item", "add_conversation_entry"}
           \/ last'.op = "remove_item" /\ last'.result = TRUE)
       => \A c \in DOMAIN memory_file'[1].categories :
             \A k \in DOMAIN memory_file'[1].categories[c].items :
                /\ <<c, k>> \in DOMAIN plain'
                /\ IF memory_file'[1].categories[c].encrypted /\ plain'[<<c, k>>] # << >>
                   THEN /\ Len(OnDiskAfter(c, k)) = 3
                        /\ OnDiskAfter(c, k)[1] = "fernet"
                        /\ OnDiskAfter(c, k)[2] = fernet'[1]
                        /\ OnDiskAfter(c, k)[3] = plain'[<<c, k>>]
                   ELSE OnDiskAfter(c, k) = plain'[<<c, k>>]]_vars

\* a later save by an instance with a key found an item that an instance
\* without a key had left in clear, or left a token as it was
C18_Witness ==
    /\ last.op = "add_conversation_entry"
    /\ fernet # None
    /\ \E c \in DOMAIN memory_file[1].categories :
          \E k \in DOMAIN memory_file[1].categories[c].items :
             /\ memory_file[1].categories[c].encrypted
             /\ plain[<<c, k>>] # << >>
             /\ OnDisk(c, k) = <<"fernet", fernet[1], plain[<<c, k>>]>>

\* C19: with a key decrypt(encrypt(v)) = v for every text v, a token included;
\* without a key encrypt(v) = v and decrypt(v) = v.
Texts == Values \cup {<<"fernet", KEY, <<"X", "y", "9">>>>, <<"f", "e", "r">>}

C19_DecryptInvertsEncrypt ==
    \A v \in Texts :
       IF fernet # None
       THEN _decrypt_data(fernet, _encrypt_data(fernet, v)) = v
       ELSE _encrypt_data(fernet, v) = v /\ _decrypt_data(fernet, v) = v

\* get_category_items handed back the text of a token of the file
C19_Witness ==
    /\ last.op = "get_category_items"
    /\ fernet # None
    /\ \E a \in {last.value[1]} :
          \E k \in DOMAIN a.value[1] :
             /\ a.value[1][k] # << >>
             /\ OnDisk(a.category, k) # a.value[1][k]
             /\ _decrypt_data(fernet, OnDisk(a.category, k)) = a.value[1][k]

\* C20: a conversation history built by add_conversation_entry has at most 100
\* entries in the file, and the lengths of their user and bot messages add up
\* to at most 50000.
RECURSIVE CharsFrom(_, _)
CharsFrom(h, i) ==
    IF i > Len(h) THEN 0 ELSE h[i].user.n + h[i].bot.n + CharsFrom(h, i + 1)

C20_HistoryWithinBothLimits ==
    memory_file # None
    => \A h \in {memory_file[1].conversation_history} :
          Len(h) <= 100 /\ CharsFrom(h, 1) <= 50000

\* an entry was added to a history of 100 entries: the oldest one is gone
C20_Witness ==
    /\ last.op = "add_conversation_entry"
    /\ used = 1
    /\ \A h \in {memory_file[1].conversation_history} :
          /\ Len(h) = 100
          /\ h[100].timestamp = now
          /\ h[1].timestamp < now
          /\ h[1].bot.n = 1

\* both limits of C20 on a history
Fits(h) == Len(h) <= 100 /\ CharsFrom(h, 1) <= 50000

\* C21: the history add_conversation_entry leaves in the file is the longest
\* suffix of the previous history followed by the new entry that has at most
\* 100 entries and at most 50000 characters: entries go from the oldest end
\* only, the others keep their order and contents, and as few as it takes go.
C21_EvictionIsFifoAndMinimal ==
    [][IsCall("add_conversation_entry")
       => \A before \in {memory_file[1].conversation_history} :
          \A after \in {memory_file'[1].conversation_history} :
          \A a \in {last'.value[1]} :
          \A all \in {Append(before, NewEntry(a.user, a.bot, now))} :
             \E n \in 0..Len(all) :
                /\ after = SubSeq(all, Len(all) - n + 1, Len(all))
                /\ Fits(after)
                /\ n < Len(all) => ~ Fits(SubSeq(all, Len(all) - n, Len(all)))]_vars

\* 101 entries of one character were added one after the other: the last
\* 100 are in the file
C21_Witness ==
    /\ last.op = "add_conversation_entry"
    /\ used = 2
    /\ \A h \in {memory_file[1].conversation_history} :
          /\ Len(h) = 100
          /\ \A i \in 1..100 : h[i].length = 1
          /\ h[98].timestamp < now
          /\ h[99].timestamp = now

\* a key is missing, or categories is not a mapping
StructurallyInvalid(stored) ==
    \/ ~ ({"metadata", "categories", "conversation_history"} \subseteq DOMAIN stored)
    \/ "json_type" \in DOMAIN stored.categories

HasItems(stored, c) ==
    /\ "categories" \in DOMAIN stored
    /\ "json_type" \notin DOMAIN stored.categories
    /\ c \in DOMAIN stored.categories
    /\ "items" \in DOMAIN stored.categories[c]

\* a value of the file as a load shows it: the text of a token of the
\* instance's key in a category encrypted by default, the value otherwise
Shown(c, v) ==
    IF fernet # None /\ c \in EncryptedByDefault
       /\ Len(v) = 3 /\ v[1] = "fernet" /\ v[2] = fernet[1]
    THEN v[3]
    ELSE v

C24_EncryptedFlagIsFixed ==
    [][/\ \A c \in DOMAIN memory_file[1].categories :
             /\ c \in DOMAIN memory_file'[1].categories
             /\ memory_file'[1].categories[c].encrypted
                   = memory_file[1].categories[c].encrypted
       /\ \A c \in DOMAIN memory_file'[1].categories \ DOMAIN memory_file[1].categories :
             /\ last'.op = "store_item"
             /\ last'.value[1].category = c
             /\ memory_file'[1].categories[c].encrypted = TRUE]_vars

\* cleanup_old_items of an instance without a key removed the one item of
\* a category made by store_item: the category is still there, flagged
\* encrypted
C24_Witness ==
    /\ last.op = "cleanup_old_items"
    /\ last.value[1].value = 1
    /\ fernet = None
    /\ "notes" \in DOMAIN memory_file[1].categories
    /\ memory_file[1].categories["notes"].encrypted
    /\ ~ memory_file[1].categories["reminders"].encrypted
    /\ memory_file[1].categories["notes"].items = NoItems

\* the result r of a search of memory for needle, as C25 describes it: per
\* searched category exactly the items with needle in the lowered key, value
\* or description, in the order of the file, and no entry for a category
\* without one; the history entries with needle in the lowered user or bot
\* text under conversation_history, when there is no filter or the filter is
\* conversation_history. With history_first, the history entries that match
\* take the place of the items of a category named conversation_history.
SearchResultIs(r, memory, needle, category, history_first) ==
    LET searched == IF category = None
                    THEN DOMAIN memory.categories
                    ELSE {category[1]} \cap DOMAIN memory.categories
        with_history == category = None \/ category = Some("conversation_history")
        talk == IF with_history
                THEN SelectSeq(memory.conversation_history,
                               LAMBDA conv :
                                  \/ Contains(needle, lower(message_chars(conv.user)))
                                  \/ Contains(needle, lower(message_chars(conv.bot))))
                ELSE << >>
        shadowed == IF history_first /\ talk # << >>
                    THEN {"conversation_history"} ELSE {}
        found(c) == {k \in DOMAIN memory.categories[c].items :
                       \/ Contains(needle, lower(chars(k)))
                       \/ Contains(needle, lower(value_chars(memory.categories[c].items[k].value)))
                       \/ Contains(needle, lower(chars(memory.categories[c].items[k].description)))}
        place(c, k) == CHOOSE n \in 1..Len(order) : order[n] = <<c, k>>
    IN  /\ DOMAIN r \subseteq searched \cup (IF talk # << >>
                                             THEN {"conversation_history"} ELSE {})
        /\ category # None => DOMAIN r \subseteq {category[1]}
        /\ \A c \in searched \ shadowed :
              IF found(c) = {}
              THEN c \notin DOMAIN r
              ELSE /\ c \in DOMAIN r
                   /\ Len(r[c]) = Cardinality(found(c))
                   /\ {r[c][n].key : n \in 1..Len(r[c])} = found(c)
                   /\ \A n \in 1..Len(r[c]) :
                         /\ r[c][n] = [key |-> r[c][n].key,
                                       value |-> memory.categories[c].items[r[c][n].key].value,
                                       description |-> memory.categories[c].items[r[c][n].key].description,
                                       created_at |-> memory.categories[c].items[r[c][n].key].created_at,
                                       last_updated |-> memory.categories[c].items[r[c][n].key].last_updated]
                         /\ \A m \in 1..(n - 1) : place(c, r[c][m].key) < place(c, r[c][n].key)
        /\ with_history /\ talk # << >>
           => "conversation_history" \in DOMAIN r /\ r["conversation_history"] = talk

\* C25 as stated: search_memory(query, category) returns, per searched
\* category, exactly the items that contain query whatever the case, in
\* insertion order, with the matching history entries under
\* conversation_history when no filter is given, and nothing outside the
\* filter's category when one is.
C25_SearchFindsQuery ==
    last.op = "search_memory"
    => \A a \in {last.value[1]} :
       \A memory \in {load_memory(memory_file, fernet, now)} :
          SearchResultIs(a.value, memory, lower(a.query), a.category, FALSE)

\* C25 amended: the text looked for is the query in lower case with the
\* spaces at its ends removed, and history entries that match take the
\* place of the items of a category named conversation_history.
C25_SearchFindsStrippedQuery ==
    last.op = "search_memory"
    => \A a \in {last.value[1]} :
       \A memory \in {load_memory(memory_file, fernet, now)} :
          SearchResultIs(a.value, memory, strip(lower(a.query)), a.category, TRUE)

\* a search found two items of one category, the one stored first listed
\* first though its key comes later in the alphabet
C25_Witness ==
    /\ last.op = "search_memory"
    /\ \A a \in {last.value[1]} :
          /\ a.query = <<"N", "e", "t">>
          /\ a.category = None
          /\ "passwords" \in DOMAIN a.value
          /\ Len(a.value["passwords"]) = 2
          /\ a.value["passwords"][1].key = "wifi"
          /\ a.value["passwords"][2].key = "Netflix"

\* C26: for limit >= 0 and a history of n entries, get_recent_conversations
\* (limit) returns min(limit, n) entries, the i-th of them the i-th from the
\* end of the history (timestamp, user, bot and length as in the file).
C26_RecentConversationsNewestFirst ==
    (last.op = "get_recent_conversations" /\ last.value[1].limit >= 0)
    => \A a \in {last.value[1]} :
       \A h \in {memory_file[1].conversation_history} :
          /\ Len(a.value) = (IF a.limit < Len(h) THEN a.limit ELSE Len(h))
          /\ \A i \in 1..Len(a.value) :
                \A k \in {"timestamp", "user", "bot", "length"} :
                   a.value[i][k] = h[Len(h) - i + 1][k]

\* of two different entries, limit 1 returned the one appended last
C26_Witness ==
    /\ last.op = "get_recent_conversations"
    /\ last.value[1].limit = 1
    /\ \A h \in {memory_file[1].conversation_history} :
          /\ Len(h) = 2
          /\ h[1].user # h[2].user
          /\ h[1].timestamp < h[2].timestamp
          /\ Len(last.value[1].value) = 1
          /\ last.value[1].value[1].user = h[2].user
          /\ last.value[1].value[1].time_ago.unit = "minutos"

\* C27: cleanup_old_items(d) leaves, in every category, exactly the items
\* whose created_at is not earlier than now minus d days, each as it was;
\* it returns the number of items that went, and the file is written only
\* when that number is not 0.
C27_CleanupRemovesExactlyOldItems ==
    [][IsCall("cleanup_old_items")
       => \A a \in {last'.value[1]} :
          \A before \in {load_memory(memory_file, fernet, now).categories} :
          \A after \in {load_memory(memory_file', fernet, now).categories} :
          \A old \in {{<<c, k>> \in DOMAIN plain :
                         before[c].items[k].created_at
                            < now - a.max_age_days * 24 * 60}} :
             /\ DOMAIN after = DOMAIN before
             /\ \A c \in DOMAIN before :
                   /\ DOMAIN after[c].items
                        = {k \in DOMAIN before[c].items : <<c, k>> \notin old}
                   /\ \A k \in DOMAIN after[c].items :
                         after[c].items[k] = before[c].items[k]
             /\ a.value = Cardinality(old)
             /\ a.value = 0 => memory_file' = memory_file
             /\ a.value > 0 => memory_file'[1].metadata.last_updated = now]_vars

\* cleanup_old_items(0) removed the item made a quarter of an hour before
\* and kept the one made at the time of the call
C27_Witness ==
    /\ last.op = "cleanup_old_items"
    /\ last.value[1].max_age_days = 0
    /\ last.value[1].value = 1
    /\ \E i \in DOMAIN plain :
          memory_file[1].categories[i[1]].items[i[2]].created_at = now

\* C28: the encryption_enabled that a save leaves in the file, and the one
\* that load_memory and get_memory_stats report, is true exactly when the
\* instance that made the call has a key.
C28_EncryptionEnabledTellsTheTruth ==
    /\ last.op = "store_item"
       => memory_file[1].metadata.encryption_enabled = (fernet # None)
    /\ last.op = "load_memory"
       => last.value[1].value[1].metadata.encryption_enabled = (fernet # None)
    /\ last.op = "get_memory_stats"
       => last.value[1].value[1].encryption_enabled = (fernet # None)

\* C29: whatever the constructor finds in the key file, neither it nor a
\* later operation of the instance raises; an instance without a key stores
\* in clear: store_item returns true and get_item returns the value stored.
C29_KeyFailureMeansPassThrough ==
    /\ last.raised = FALSE
    /\ (last.op = "store_item" /\ fernet = None)
       => \A a \in {last.value[1]} :
             /\ last.result = TRUE
             /\ OnDisk(a.category, a.key) = a.value[1]
             /\ get_item_value(memory_file, fernet, now, a.category, a.key) = a.value
\* the store_item call of every thread has returned
AllReturned == \A t \in Threads : calls[t].pc \in {"done", "failed"}

\* the item the thread t stored is in the memory file
Kept(t) ==
    /\ memory_file[1] # Unparseable
    /\ calls[t].category \in DOMAIN memory_file[1].categories
    /\ calls[t].key \in DOMAIN memory_file[1].categories[calls[t].category].items

\* C30: when two store_item calls on the memory file of one user interleave,
\* the memory file they leave is the complete text that one of the two calls
\* wrote.
C30_FinalFileIsOneWritersOutput ==
    AllReturned => \E t \in Threads : memory_file = calls[t].output

\* two calls that stored different items have returned True and the item of
\* one of them is not in the file
C30_LostUpdate ==
    /\ \A t \in Threads : calls[t].pc = "done"
    /\ <<calls["t1"].category, calls["t1"].key>> # <<calls["t2"].category, calls["t2"].key>>
    /\ memory_file[1] # Unparseable
    /\ \E t \in Threads : ~ Kept(t)

\* no construction of a MemoryManager is under way
NoConstruction == \A t \in Threads : managers[t].pc \in {"new", "built"}

\* C31: starting with no key file, after any interleaving of constructions
\* the key file was written exactly once and every instance has the key that
\* is in the file, and get_item of an instance returns in plaintext what
\* another instance stored in an encrypted category.
C31_KeyGeneratedOnce ==
    /\ (NoConstruction /\ \E t \in Threads : managers[t].pc = "built")
       => /\ Cardinality({t \in Threads : managers[t].wrote}) = 1
          /\ \A t \in Threads :
                managers[t].pc = "built" => managers[t].encryption_key = memory_key
    /\ (last.op = "get_item" /\ <<last.value[1].category, last.value[1].key>> \in DOMAIN plain)
       => last.value[1].value = Some(plain[<<last.value[1].category, last.value[1].key>>])

\* two instances were constructed one after the other, the first stored a
\* value in an encrypted category and the second read it
C31_Sequential ==
    /\ \A t \in Threads : managers[t].pc = "built"
    /\ Cardinality({t \in Threads : managers[t].wrote}) = 1
    /\ last.op = "get_item"
    /\ <<"passwords", "Netflix">> \in DOMAIN plain
    /\ last.value[1].category = "passwords"
    /\ last.value[1].value = Some(<<"X", "y", "9">>)

\* the users of the latest backup, or none when there is no backup
RestoredUsers(b) ==
    IF get_latest_backup(b) = {} THEN {EmptyUsers}
    ELSE {b[k].db.users : k \in get_latest_backup(b)}

\* C32: an operation that finds a credential file whose integrity_hash does
\* not match its users works on the users of the latest backup (or on none):
\* validate_user authenticates no user record of the mismatched file, and no
\* record of it is carried into the file an operation saves.
C32_MismatchedFileIsNotTrusted ==
    [][(file # None /\ ~ _verify_data_integrity(file[1].db))
       => \E users \in RestoredUsers(backups) :
             /\ (IsCall("validate_user") /\ last'.result = TRUE)
                => last'.phone \in DOMAIN users
             /\ (file' # file /\ file' # None)
                => \A p \in DOMAIN file'[1].db.users \cap DOMAIN file[1].db.users :
                      p \in DOMAIN users]_vars

\* the record of p is in the file before and after the step and is the same
\* account, with another login_attempts
AttemptsChanged(p) ==
    /\ Registered(p) /\ RegisteredAfter(p)
    /\ RecAfter(p).created_at = Rec(p).created_at
    /\ RecAfter(p).login_attempts # Rec(p).login_attempts

\* the step is a validate_user for p that counted a failure or reset the count
CountedByValidate(p) ==
    /\ IsCall("validate_user") /\ last'.phone = p
    /\ \/ last'.result = FALSE /\ RecAfter(p).login_attempts = Rec(p).login_attempts + 1
       \/ last'.result = TRUE /\ RecAfter(p).login_attempts = 0

\* a wrong password for a salted record whose lockout has expired counts on
\* from the old login_attempts and locks the account for LOCK_MINUTES
RelockedAfterExpiry(p) ==
    (/\ IsCall("validate_user") /\ last'.phone = p
     /\ Registered(p) /\ Rec(p).salt # None
     /\ Rec(p).locked_until # None /\ ~ InLockout(Rec(p), now)
     /\ Rec(p).login_attempts >= MAX_LOGIN_ATTEMPTS
     /\ last'.password # StoredPassword(Rec(p)))
    => /\ last'.result = FALSE
       /\ RegisteredAfter(p)
       /\ RecAfter(p).login_attempts = Rec(p).login_attempts + 1
       /\ RecAfter(p).locked_until = Some(now + LOCK_MINUTES)

\* C33 as stated: login_attempts of a record is changed only by
\* validate_user, by 1 upwards when it returns false and to 0 when it returns
\* true; a wrong password after the expiry of a lockout locks the account
\* again for 30 minutes.
C33_OnlyValidateChangesAttempts ==
    [][\A p \in GoodPhones :
          /\ AttemptsChanged(p) => CountedByValidate(p)
          /\ RelockedAfterExpiry(p)]_vars

\* C33: login_attempts of a record is changed only by validate_user (by 1
\* upwards when it returns false, to 0 when it returns true) and by
\* restore_backup, which brings back the count the backup holds; a wrong
\* password after the expiry of a lockout locks the account again for 30
\* minutes.
C33_ValidateOrRestoreChangesAttempts ==
    [][\A p \in GoodPhones :
          /\ AttemptsChanged(p) => (CountedByValidate(p) \/ IsCall("restore_backup"))
          /\ RelockedAfterExpiry(p)]_vars

\* an account locked a second time by the first wrong password after expiry
C33_Witness ==
    /\ Registered(PhoneA)
    /\ last.op = "validate_user" /\ last.result = FALSE
    /\ Rec(PhoneA).login_attempts = MAX_LOGIN_ATTEMPTS + 1
    /\ Rec(PhoneA).locked_until = Some(now + LOCK_MINUTES)

\* C34: store_item on a key that is already there replaces the whole item:
\* created_at and last_updated are the time of the call, the description and
\* the value are those given to it, whatever the item held before.
C34_UpdateReplacesWholeItem ==
    [][\A c \in {"passwords", "notes"}, k \in Keys, v \in UpdateValues, d \in Descriptions :
          store_item(c, k, v, d)
          => \A item \in {memory_file'[1].categories[c].items[k]} :
                /\ item.created_at = now
                /\ item.last_updated = now
                /\ item.description = d
                /\ item.value = IF memory_file'[1].categories[c].encrypted
                                THEN _encrypt_data(fernet, v) ELSE v
                /\ DOMAIN item = {"value", "created_at", "last_updated", "description"}]_vars

\* two store_item calls were made and the file holds one item: the second
\* call, made later than the start, replaced the item of the first
C34_Witness ==
    /\ last.op = "store_item"
    /\ used = 2
    /\ now > 0
    /\ \A c \in DOMAIN memory_file[1].categories \ {"passwords"} :
          memory_file[1].categories[c].items = NoItems
    /\ DOMAIN memory_file[1].categories["passwords"].items = {"Netflix"}
    /\ memory_file[1].categories["passwords"].items["Netflix"].created_at = now
    /\ memory_file[1].categories["passwords"].items["Netflix"].description = "clave"

\* C35: a validate_user call for a phone that is not registered, or for an
\* account in its lockout, leaves the credential file (login_attempts and
\* locked_until of every record included) and the backups as they were.
C35_RefusedLoginWritesNothing ==
    [][(/\ IsCall("validate_user")
        /\ \/ ~ Registered(last'.phone)
           \/ InLockout(Rec(last'.phone), now))
       => /\ last'.result = FALSE
          /\ file' = file
          /\ backups' = backups]_vars

\* the right password was refused during a lockout
C35_Witness ==
    /\ last.op = "validate_user" /\ last.result = FALSE
    /\ Registered(last.phone)
    /\ InLockout(Rec(last.phone), now)
    /\ Rec(last.phone).salt # None
    /\ last.password = StoredPassword(Rec(last.phone))
    /\ Rec(last.phone).login_attempts = MAX_LOGIN_ATTEMPTS

\* C36: after add_conversation_entry(u, b) the last entry of the history in
\* the memory file is the entry made from u and b, whatever their lengths.
C36_NewEntryIsKept ==
    last.op = "add_conversation_entry"
    => \A history \in {load_memory(memory_file, fernet, now).conversation_history} :
          /\ history # << >>
          /\ history[Len(history)] = NewEntry(last.value[1].user, last.value[1].bot, now)

\* the item (c, k) that the file stored holds is in the file after the step,
\* with the same dates and description and, as the instance reads it, the
\* same value
ItemKept(stored, c, k) ==
    /\ c \in DOMAIN memory_file'[1].categories
    /\ k \in DOMAIN memory_file'[1].categories[c].items
    /\ \A old \in {stored.categories[c].items[k]} :
       \A new \in {memory_file'[1].categories[c].items[k]} :
          /\ new.created_at = old.created_at
          /\ new.last_updated = old.last_updated
          /\ new.description = old.description
          /\ _decrypt_data(fernet, new.value) = _decrypt_data(fernet, old.value)

\* C37: store_item(category, key, value) leaves every other item of every
\* category of the file and the whole conversation history in the file, also
\* when the file was structurally invalid and was repaired by the load.
C37_StoreKeepsEverythingElse ==
    [][(IsCall("store_item") /\ memory_file # None /\ memory_file[1] # Unparseable)
       => \A stored \in {memory_file[1]} :
             /\ \A c \in {"passwords", "reminders", "notes", "favorites"} :
                   HasItems(stored, c)
                   => \A k \in DOMAIN stored.categories[c].items :
                         <<c, k>> # <<last'.value[1].category, last'.value[1].key>>
                         => ItemKept(stored, c, k)
             /\ ("conversation_history" \in DOMAIN stored
                 /\ isinstance_list(stored.conversation_history))
                => memory_file'[1].conversation_history = stored.conversation_history]_vars

ReadOperations ==
    {"get_item", "get_category_items", "search_memory",
     "get_recent_conversations", "get_memory_stats", "export_memory"}

\* C38: get_item, get_category_items, search_memory,
\* get_recent_conversations, get_memory_stats and export_memory leave a
\* memory file that exists as it is: categories, items and conversation
\* history are the same after the call, without any time_ago.
C38_ReadsLeaveTheFile ==
    [][(last'.op \in ReadOperations /\ memory_file # None)
       => memory_file' = memory_file]_vars

\* get_recent_conversations returned an entry with its time_ago and the
\* entry in the file has none
C38_Witness ==
    /\ last.op = "get_recent_conversations"
    /\ last.value[1].value # << >>
    /\ "time_ago" \in DOMAIN last.value[1].value[1]
    /\ memory_file[1].conversation_history # << >>
    /\ \A n \in DOMAIN memory_file[1].conversation_history :
          "time_ago" \notin DOMAIN memory_file[1].conversation_history[n]

\* the item mappings with n items that a memory could hold in a category
AltKeys == {"Netflix", "wifi", "zz"}
AltItems ==
    [value : {<<"X", "y", "9">>, <<"N", "E", "T">>}, created_at : {0},
     last_updated : {0}, description : {"", "clave"}]
ItemMaps(n) ==
    UNION {[K -> AltItems] : K \in {S \in SUBSET AltKeys : Cardinality(S) = n}}

\* the memories that differ from memory only in the keys, values and
\* descriptions of the items of the categories in E, with as many items
RECURSIVE Vary(_, _)
Vary(memory, E) ==
    IF E = {} THEN {memory}
    ELSE LET c == CHOOSE x \in E : TRUE
         IN  UNION {Vary([memory EXCEPT !.categories[c].items = items], E \ {c}) :
                      items \in ItemMaps(Cardinality(DOMAIN memory.categories[c].items))}

\* C39: the export without sensitive data is the same for two memories
\* that differ only in the keys, values or descriptions of the items of
\* categories flagged encrypted and have as many items in each of them.
C39_ExportHidesEncryptedItems ==
    (last.op = "export_memory" /\ last.value[1].include_sensitive = FALSE)
    => \A memory \in {load_memory(memory_file, fernet, now)} :
          \A other \in Vary(memory, {c \in DOMAIN memory.categories :
                                        memory.categories[c].encrypted}) :
             export_memory_value(other, FALSE, now) = last.value[1].value

\* an export without sensitive data of a memory with two passwords and an
\* item that is not sensitive
C39_Witness ==
    /\ last.op = "export_memory" /\ last.value[1].include_sensitive = FALSE
    /\ last.value[1].value.categories["passwords"].items = [count |-> 2, sensitive |-> TRUE]
    /\ DOMAIN memory_file[1].categories["passwords"].items = {"Netflix", "wifi"}

\* no validate_user call is under way
NoLoginUnderWay == \A t \in Threads : logins[t].pc = "idle"

\* C40: when validate_user calls for one phone run at the same time, at
\* most 5 wrong passwords are compared with the stored hash before the
\* account is locked, and once the calls have returned login_attempts counts
\* every one of them.
C40_LimitHoldsUnderConcurrency ==
    /\ checks <= MAX_LOGIN_ATTEMPTS
    /\ NoLoginUnderWay => Rec(PhoneA).login_attempts = checks

\* five wrong passwords, given one after the other, have locked the account
C40_Sequential ==
    /\ NoLoginUnderWay
    /\ checks = MAX_LOGIN_ATTEMPTS
    /\ Rec(PhoneA).login_attempts = MAX_LOGIN_ATTEMPTS
    /\ InLockout(Rec(PhoneA), now)

====
